---- MODULE Spec2Model ----
(***************************************************************************)
(* Model of the toolbox core of certification-lab-ci-tools:                *)
(*   toolbox/retries.py            Linear, retry                           *)
(*   toolbox/interfaces/snaps.py   SnapInterface (change polling)          *)
(*   toolbox/interfaces/status.py  SystemStatusInterface                   *)
(*   toolbox/interfaces/reboot.py  RebootInterface                         *)
(*   toolbox/interfaces/snapd.py   SnapdAPIClient                          *)
(*   toolbox/devices/registry.py   DeviceInterfaceRegistry                 *)
(*   toolbox/checkbox/helpers/connector.py   SnapConnector, predicates     *)
(*   toolbox/entities/connections.py         SnapConnection                *)
(* The program is single-threaded: the call stack is modelled by `stack`   *)
(* (one frame per running retry), `ppc` (position inside the probe         *)
(* check_snap_changes_complete_and_reboot) and `ipc` (position inside      *)
(* SnapInterface.install).  The functions of the protocol client, the      *)
(* registry and the connector are called on their own, on arguments chosen *)
(* in Init (`arg`).                                                        *)
(***************************************************************************)
EXTENDS Integers, Sequences, FiniteSets, TLC

\* ------------------------------------------------------------------ bounds
MaxTimes == 2        \* largest `times` a Linear policy is constructed with
MaxDelay == 1        \* largest `delay` a Linear policy is constructed with
MaxChanges == 2      \* longest change list the daemon reports
MaxUnbounded == 3    \* waits taken from an unbounded policy before the model stops
MaxChunks == 2       \* most data chunks of a chunk stream
MaxSegments == 2     \* most assertions of an assertion body
MaxInterfaces == 4   \* most interfaces a registry is constructed from
MaxPlugs == 2        \* most plugs of a topology
MaxSlots == 2        \* most slots of a topology
MaxEntries == 2      \* most entries of a blacklist
MaxItems == 2        \* most items of a blacklist document
MaxCalls == 3        \* most calls of process on one connector
MaxFields == 2       \* most field lines of a header
MaxMatch == 1        \* most entries of an item's match list

\* ------------------------------------------------------------- value sets
\* Python values a generic probe returns, by their repr.
FalsyValues == {"False", "None", "0", "''"}
TruthyValues == {"success", "True"}
ProbeValues == FalsyValues \cup TruthyValues

\* a probe result counts as success only when it is the constant True
TruthyIsTrue(v) == v = "True"

\* retries.py:45,57  `if result:`  (truth value of the probe's result)
Truthy(v) == v \notin FalsyValues

\* snaps.py:69,76 / results.py:8-9  a bool (or BooleanResult) by its repr
PyBool(b) == IF b THEN "True" ELSE "False"

Delays == (0 - 1)..MaxDelay
Times == (0 - 1)..MaxTimes

\* --------------------------------------------------------------- policies
\* retries.py:25-27  Linear.__init__ ; bounded = (times is not None)
Linear(bounded, times, delay) ==
    [kind |-> "linear", bounded |-> bounded, times |-> times,
     delay |-> delay, seq |-> <<>>]

\* retries.py:13-19  any other RetryPolicy subclass: waits() yields `seq`
\* (tests/test_retries.py:122-124 CustomPolicy)
Custom(seq) ==
    [kind |-> "custom", bounded |-> TRUE, times |-> 0, delay |-> 0, seq |-> seq]

\* `policy=None` at a call site
NoPolicy ==
    [kind |-> "none", bounded |-> FALSE, times |-> 0, delay |-> 0, seq |-> <<>>]

\* waits() ignores `times` and repeats the delay for ever
EffectivePolicyUnbounded(p) ==
    IF p.kind = "custom" THEN p ELSE Linear(FALSE, 0, p.delay)

\* retries.py:25  the default of `delay`
DefaultDelay == 0

\* retries.py:25-27  Linear(...) as a call: `times` and `delay` are optional
\* (times=None, delay=0)
LinearCall(a) ==
    Linear(a.hasTimes, IF a.hasTimes THEN a.times ELSE 0,
           IF a.hasDelay THEN a.delay ELSE DefaultDelay)

\* tests/test_retries.py:9-35  the calls of Linear the generator is drained for
LinearCalls ==
    [hasTimes : BOOLEAN, times : Times, hasDelay : BOOLEAN, delay : Delays]

\* retries.py:39-40  `if not policy: policy = Linear()`
EffectivePolicy(p) == IF p.kind = "none" THEN Linear(FALSE, 0, 0) ELSE p

\* the generator yields one value more than `times`
GenExhaustedLate(g) ==
    IF g.kind = "custom" THEN g.seq = <<>>
    ELSE g.bounded /\ g.times < 0

\* retries.py:29-34  Linear.waits(): the generator is exhausted
\* (itertools.repeat(x, times=n) yields nothing when n <= 0)
GenExhausted(g) ==
    IF g.kind = "custom" THEN g.seq = <<>>
    ELSE g.bounded /\ g.times <= 0

\* the generator yields its values from the wrong end
GenValueLast(g) == IF g.kind = "custom" THEN g.seq[Len(g.seq)] ELSE g.delay

\* retries.py:29-34  the value the generator yields next
GenValue(g) == IF g.kind = "custom" THEN Head(g.seq) ELSE g.delay

\* a bounded generator never counts its values down
GenAdvanceKeeps(g) ==
    IF g.kind = "custom" THEN [g EXCEPT !.seq = Tail(@)] ELSE g

\* retries.py:29-34  the generator after yielding one value
GenAdvance(g) ==
    IF g.kind = "custom" THEN [g EXCEPT !.seq = Tail(@)]
    ELSE IF g.bounded THEN [g EXCEPT !.times = @ - 1] ELSE g

\* -------------------------------------------------------------------- text
\* Text is a sequence of characters.  The alphabet keeps apart what the
\* parsers keep apart: "SP", "LF" and "CR" are the space, the line feed and
\* the carriage return, ":" "{" "}" "[" "]" "," and the hexadecimal digits
\* are themselves, and any other string stands for one further character.
Whitespace == {"SP", "LF", "CR"}

\* str.lstrip()
RECURSIVE LStrip(_)
LStrip(s) ==
    IF s # <<>> /\ Head(s) \in Whitespace THEN LStrip(Tail(s)) ELSE s

\* str.rstrip()
RECURSIVE RStrip(_)
RStrip(s) ==
    IF s # <<>> /\ s[Len(s)] \in Whitespace
    THEN RStrip(SubSeq(s, 1, Len(s) - 1)) ELSE s

\* str.strip()
Strip(s) == LStrip(RStrip(s))

\* The separators the client splits on; MatchAt is the length of the match
\* of the separator at position i of s, 0 when it does not match there:
\*   "line"    snapd.py:51,65,72  the pattern \n|\r\n
\*   "blank"   snapd.py:79,107    the pattern \n\n|\r\n\r\n
\*   "field"   snapd.py:58        the string ": "
MatchAt(sep, s, i) ==
    IF sep = "line"
    THEN IF s[i] = "LF" THEN 1
         ELSE IF i + 1 <= Len(s) /\ s[i] = "CR" /\ s[i + 1] = "LF" THEN 2
         ELSE 0
    ELSE IF sep = "blank"
    THEN IF i + 1 <= Len(s) /\ s[i] = "LF" /\ s[i + 1] = "LF" THEN 2
         ELSE IF i + 3 <= Len(s) /\ s[i] = "CR" /\ s[i + 1] = "LF"
                 /\ s[i + 2] = "CR" /\ s[i + 3] = "LF" THEN 4
         ELSE 0
    ELSE IF i + 1 <= Len(s) /\ s[i] = ":" /\ s[i + 1] = "SP" THEN 2
         ELSE 0

\* position of the leftmost match at or after i, 0 when there is none
RECURSIVE FindMatch(_, _, _)
FindMatch(sep, s, i) ==
    IF i > Len(s) THEN 0
    ELSE IF MatchAt(sep, s, i) > 0 THEN i
    ELSE FindMatch(sep, s, i + 1)

\* re.split(pattern, s, maxsplit) and str.split(sep): the list of the parts
\* of s between the matches, cut at most `splits` times (-1: no limit, which
\* Python writes maxsplit=0)
RECURSIVE Split(_, _, _)
Split(sep, s, splits) ==
    LET i == FindMatch(sep, s, 1) IN
    IF splits = 0 \/ i = 0 THEN <<s>>
    ELSE <<SubSeq(s, 1, i - 1)>>
         \o Split(sep, SubSeq(s, i + MatchAt(sep, s, i), Len(s)), splits - 1)

\* position of the first whitespace character of s, Len(s) + 1 when none
RECURSIVE WordEnd(_, _)
WordEnd(s, i) ==
    IF i > Len(s) \/ s[i] \in Whitespace THEN i ELSE WordEnd(s, i + 1)

\* str.split(maxsplit=n): the words of s; after n cuts the rest is one part
RECURSIVE SplitWords(_, _)
SplitWords(s, maxsplit) ==
    LET t == LStrip(s) IN
    IF t = <<>> THEN <<>>
    ELSE IF maxsplit = 0 THEN <<t>>
    ELSE LET n == WordEnd(t, 1) IN
         <<SubSeq(t, 1, n - 1)>>
         \o SplitWords(SubSeq(t, n, Len(t)), maxsplit - 1)

\* "".join(parts) and sep.join(parts)
RECURSIVE Join(_, _)
Join(sep, parts) ==
    IF parts = <<>> THEN <<>>
    ELSE IF Len(parts) = 1 THEN parts[1]
    ELSE parts[1] \o sep \o Join(sep, Tail(parts))

\* ----------------------------------------------------- the protocol client
\* nothing was raised / received / parsed yet
NoMessage == [kind |-> "none"]
NoResponse == [stdout |-> <<>>, stderr |-> <<>>]
NoHeader == [parsed |-> FALSE]
NoGetter == [called |-> FALSE]

\* urllib.parse.urlencode(params, doseq=True), snapd.py:39: the pairs
\* `key=value` joined by "&"
RECURSIVE UrlEncode(_)
UrlEncode(params) ==
    IF params = <<>> THEN <<>>
    ELSE <<params[1].key, "=", params[1].value>>
         \o (IF Len(params) > 1 THEN <<"&">> \o UrlEncode(Tail(params))
             ELSE <<>>)

\* snapd.py:37-41  create_get_request_url
CreateGetRequestUrl(endpoint, params) ==
    <<"GET", "SP", "/v2/">> \o endpoint
    \o (IF params # <<>> THEN <<"?">> \o UrlEncode(params) ELSE <<>>)

\* snapd.py:43-46  create_get_request:
\* f"{url} HTTP/1.1\nHost: snapd.socket\nConnection: close\n\n"
CreateGetRequest(url) ==
    url \o <<"SP", "HTTP/1.1", "LF",
             "Host", ":", "SP", "snapd.socket", "LF",
             "Connection", ":", "SP", "close", "LF", "LF">>

\* the digits int(text, base=16) reads, in the order of their values
HexDigits == <<"0", "1", "2", "3", "4", "5", "6", "7", "8", "9",
               "a", "b", "c", "d", "e", "f">>

IsHex(s) ==
    s # <<>> /\ \A i \in 1..Len(s) : \E d \in 1..16 : HexDigits[d] = s[i]

\* int(s, base=16) for a text of hexadecimal digits
RECURSIVE HexValue(_)
HexValue(s) ==
    IF s = <<>> THEN 0
    ELSE 16 * HexValue(SubSeq(s, 1, Len(s) - 1))
         + ((CHOOSE d \in 1..16 : HexDigits[d] = s[Len(s)]) - 1)

\* the payload is taken with its surrounding whitespace removed
ChunkPayloadStripped(raw_body, chunk_size) ==
    Strip(SubSeq(raw_body, 1, chunk_size))

\* snapd.py:70  raw_body[:chunk_size]  (a slice ends where the text ends)
ChunkPayload(raw_body, chunk_size) ==
    IF chunk_size <= Len(raw_body) THEN SubSeq(raw_body, 1, chunk_size)
    ELSE raw_body

\* snapd.py:65-73  parse_chunked_body from a size line on: the size line is
\* split off (ValueError when the text has no line break: one part cannot
\* be unpacked into two) and read as hexadecimal (ValueError when it is
\* not); a positive size takes the payload, strips the whitespace before
\* the next size line and goes round; size 0 ends the loop
RECURSIVE ReadChunks(_, _)
ReadChunks(raw_body, body_parts) ==
    LET parts == Split("line", raw_body, 1) IN
    IF Len(parts) # 2 THEN [exc |-> "ValueError", body |-> <<>>]
    ELSE LET chunk_size_hex == Strip(parts[1])
             rest == parts[2]
         IN  IF ~IsHex(chunk_size_hex)
             THEN [exc |-> "ValueError", body |-> <<>>]
             ELSE LET chunk_size == HexValue(chunk_size_hex) IN
                  IF chunk_size > 0
                  THEN ReadChunks(
                         LStrip(SubSeq(rest, chunk_size + 1, Len(rest))),
                         Append(body_parts, ChunkPayload(rest, chunk_size)))
                  ELSE [exc |-> "none", body |-> Join(<<>>, body_parts)]

\* snapd.py:62-75  parse_chunked_body
ParseChunkedBody(raw_body) == ReadChunks(raw_body, <<>>)

\* hex(n) without its prefix: the size line of a chunk of n characters
RECURSIVE Hex(_)
Hex(n) ==
    IF n < 16 THEN <<HexDigits[n + 1]>>
    ELSE Hex(n \div 16) \o <<HexDigits[(n % 16) + 1]>>

\* the two line terminators of tests/interfaces/test_snapd.py:120-148
LineEnds == {<<"LF">>, <<"CR", "LF">>}

\* a well-formed chunk stream: per chunk the size line, the payload and a
\* line terminator, then the zero-size chunk
RECURSIVE EncodeChunks(_, _)
EncodeChunks(chunks, eol) ==
    IF chunks = <<>> THEN <<"0">> \o eol
    ELSE Hex(Len(Head(chunks))) \o eol \o Head(chunks) \o eol
         \o EncodeChunks(Tail(chunks), eol)

\* chunk payloads: the ones of tests/interfaces/test_snapd.py:120-148 and
\* payloads that begin or end with whitespace, hold a line break, look
\* like a terminating chunk, or need a two-digit size
Payloads ==
    {<<"h", "e", "l", "l", "o">>,
     <<"SP", "w", "o", "r", "l", "d">>,
     <<"h", "e", "l", "l", "o", "SP", "w", "o", "r", "l">>,
     <<"d">>,
     <<"LF", "x">>,
     <<"x", "SP">>,
     <<"x", "CR", "LF", "y">>,
     <<"0", "LF">>,
     <<"{", "1", "2", "3", "4", "5", "6", "7", "8", "9", "a", "b", "c", "d",
       "e", "f", "}">>}

RECURSIVE SeqsUpTo(_, _)
SeqsUpTo(S, n) ==
    IF n = 0 THEN {<<>>}
    ELSE LET shorter == SeqsUpTo(S, n - 1) IN
         shorter \cup {Append(s, x) : s \in shorter, x \in S}

WellFormedStreams ==
    {[kind |-> "well-formed", chunks |-> cs, raw |-> EncodeChunks(cs, eol)] :
        cs \in SeqsUpTo(Payloads, MaxChunks), eol \in LineEnds}

\* truncated and malformed chunk streams
MalformedStreams ==
    {[kind |-> "empty", chunks |-> <<>>, raw |-> <<>>],
     [kind |-> "no terminator", chunks |-> <<>>,
      raw |-> <<"5", "LF", "h", "e", "l", "l", "o", "LF">>],
     [kind |-> "no terminator", chunks |-> <<>>,
      raw |-> <<"5", "CR", "LF", "h", "e", "l", "l", "o">>],
     [kind |-> "size not hexadecimal", chunks |-> <<>>,
      raw |-> <<"z", "LF", "h", "LF", "0", "LF">>],
     [kind |-> "size not hexadecimal", chunks |-> <<>>,
      raw |-> <<"1", "LF", "h", "LF", "z", "LF">>],
     [kind |-> "short payload", chunks |-> <<>>,
      raw |-> <<"5", "LF", "h", "e", "l">>],
     [kind |-> "short payload", chunks |-> <<>>,
      raw |-> <<"5", "LF", "h", "e", "l", "LF", "0", "LF">>]}

\* A parsed YAML document: a mapping (its items in order) or None
Mapping(items) == [kind |-> "mapping", items |-> items]
NoneDocument == [kind |-> "none", items |-> <<>>]

\* the lines of a text that are not blank
NonBlankLines(text) ==
    SelectSeq(Split("line", text, 0 - 1), LAMBDA line : Strip(line) # <<>>)

\* a line `key: value` of a block mapping, not indented
IsMappingLine(line) ==
    /\ Head(line) \notin Whitespace
    /\ Len(Split("field", RStrip(line), 0 - 1)) = 2

\* snapd.py:110  yaml.safe_load(part), for the documents assertions are made
\* of: an empty text loads as None, lines `key: value` load as a mapping,
\* an indented or doubly separated line is a YAMLError
\* (tests/interfaces/test_snapd.py:260-266)
YamlSafeLoad(part) ==
    LET lines == NonBlankLines(part) IN
    IF lines = <<>> THEN [exc |-> "none", doc |-> NoneDocument]
    ELSE IF \E i \in 1..Len(lines) : ~IsMappingLine(lines[i])
    THEN [exc |-> "YAMLError", doc |-> NoneDocument]
    ELSE [exc |-> "none",
          doc |-> Mapping([i \in 1..Len(lines) |->
                     LET kv == Split("field", RStrip(lines[i]), 0 - 1) IN
                     [key |-> kv[1], value |-> kv[2]]])]

\* snapd.py:110  parts[:-1]
AllButLast(parts) == SubSeq(parts, 1, Len(parts) - 1)

\* snapd.py:105-114  parse_assertions: the body is split on blank lines,
\* every part but the last is loaded, a YAMLError becomes SnapdAPIError
ParseAssertions(text) ==
    LET parts == AllButLast(Split("blank", text, 0 - 1))
        loaded == [i \in 1..Len(parts) |-> YamlSafeLoad(parts[i])]
    IN  IF \E i \in 1..Len(parts) : loaded[i].exc # "none"
        THEN [exc |-> "SnapdAPIError", docs |-> <<>>]
        ELSE [exc |-> "none",
              docs |-> [i \in 1..Len(parts) |-> loaded[i].doc]]

\* the assertions of tests/interfaces/test_snapd.py:231-258, as items
Assertions ==
    {<<[key |-> <<"type">>, value |-> <<"account">>],
       [key |-> <<"account-id">>, value |-> <<"abc123">>]>>,
     <<[key |-> <<"type">>, value |-> <<"snap-declaration">>],
       [key |-> <<"snap-name">>, value |-> <<"test">>]>>,
     <<[key |-> <<"type">>, value |-> <<"model">>]>>}

\* the text of an assertion: one line `key: value` per item
RECURSIVE AssertionText(_, _)
AssertionText(items, eol) ==
    IF items = <<>> THEN <<>>
    ELSE Head(items).key \o <<":", "SP">> \o Head(items).value
         \o (IF Len(items) > 1 THEN eol \o AssertionText(Tail(items), eol)
             ELSE <<>>)

\* how an assertion body ends: with a blank line (the tests' bodies), with
\* one line terminator, or with the last character of the last assertion
BodyEndings == {"blank line", "line end", "nothing"}

\* the body made of the assertions `segments`, a blank line between two
AssertionBody(segments, eol, ending) ==
    Join(eol \o eol, [i \in 1..Len(segments) |->
                          AssertionText(segments[i], eol)])
    \o (CASE ending = "blank line" -> eol \o eol
          [] ending = "line end" -> eol
          [] OTHER -> <<>>)

AssertionBodies ==
    {[segments |-> ss, ending |-> e, text |-> AssertionBody(ss, eol, e)] :
        ss \in SeqsUpTo(Assertions, MaxSegments), eol \in LineEnds,
        e \in BodyEndings}

\* tests/interfaces/test_snapd.py:260-266  a body that is not valid YAML
InvalidAssertionBody ==
    [segments |-> <<>>, ending |-> "invalid",
     text |-> <<"type", ":", "SP", "account", "LF", "SP", "SP", "invalid",
                ":", "SP", "yaml", ":", "SP", "structure", "LF", "LF">>]

\* dict.get(field) on the header fields: the value the last line with that
\* field name set, or None
HeaderGet(fields, field) ==
    LET at == {i \in 1..Len(fields) : fields[i].field = field} IN
    IF at = {} THEN [present |-> FALSE, value |-> <<>>]
    ELSE [present |-> TRUE,
          value |-> fields[CHOOSE i \in at : \A j \in at : j <= i].value]

\* snapd.py:56-59  a header line sets a field when `line.split(": ")` gives
\* exactly two parts; the ValueError of any other line is suppressed
IsFieldLine(line) == Len(Split("field", line, 0 - 1)) = 2

\* snapd.py:48-60  parse_header: the lines are split and stripped, the
\* status line is cut into at most three words (IndexError when there is no
\* second word), the third word on is the reason when there is one, and
\* every other line that splits into field and value sets that field
ParseHeader(raw_header) ==
    LET raw_lines == Split("line", raw_header, 0 - 1)
        header_lines == [i \in 1..Len(raw_lines) |-> Strip(raw_lines[i])]
        status == SplitWords(header_lines[1], 2)
        field_lines == SelectSeq(Tail(header_lines), IsFieldLine)
    IN  IF Len(status) < 2
        THEN [exc |-> "IndexError", header |-> NoHeader]
        ELSE [exc |-> "none",
              header |->
                [parsed |-> TRUE,
                 status_code |-> status[2],
                 has_reason |-> Len(status) >= 3,
                 reason |-> IF Len(status) >= 3 THEN status[3] ELSE <<>>,
                 fields |-> [i \in 1..Len(field_lines) |->
                    LET kv == Split("field", field_lines[i], 0 - 1) IN
                    [field |-> kv[1], value |-> kv[2]]]]]

\* snapd.py:77-86  parse: the response is cut at the first blank line
\* (ValueError when it has none: one part cannot be unpacked into two),
\* the header is parsed, and the body is chunk-decoded when the header
\* says `Transfer-Encoding: chunked`
Parse(text) ==
    LET parts == Split("blank", text, 1) IN
    IF Len(parts) # 2
    THEN [exc |-> "ValueError", header |-> NoHeader, body |-> <<>>]
    ELSE LET h == ParseHeader(parts[1]) IN
         IF h.exc # "none"
         THEN [exc |-> h.exc, header |-> NoHeader, body |-> <<>>]
         ELSE IF HeaderGet(h.header.fields, <<"Transfer-Encoding">>)
                   = [present |-> TRUE, value |-> <<"chunked">>]
         THEN LET decoded == ParseChunkedBody(parts[2]) IN
              [exc |-> decoded.exc, header |-> h.header,
               body |-> decoded.body]
         ELSE [exc |-> "none", header |-> h.header, body |-> parts[2]]

\* A JSON value is written as its text; a JSON object is the sequence of
\* its members, each a key and the text of its value.
Member(key, value) == [key |-> key, value |-> value]

\* the objects the daemon answers with (tests/interfaces/test_snapd.py:
\* 182-210,272-283,356-366): with `result` (a string, an object, a list),
\* with other members around it, without `result`, and empty
JsonObjects ==
    {<<Member("result", <<"'ok'">>)>>,
     <<Member("result", <<"{", "'snap'", ":", "'checkbox'", "}">>)>>,
     <<Member("type", <<"'sync'">>),
       Member("result", <<"[", "{", "'id'", ":", "'1'", "}", "]">>),
       Member("status", <<"'OK'">>)>>,
     <<Member("type", <<"'error'">>)>>,
     <<>>}

\* the text of an object without any whitespace
RECURSIVE MembersText(_)
MembersText(members) ==
    IF members = <<>> THEN <<>>
    ELSE <<Head(members).key, ":">> \o Head(members).value
         \o (IF Len(members) > 1 THEN <<",">> \o MembersText(Tail(members))
             ELSE <<>>)

CompactText(object) == <<"{">> \o MembersText(object) \o <<"}">>

\* json.dumps(object): ", " between members and ": " after a key
RECURSIVE MembersDumps(_)
MembersDumps(members) ==
    IF members = <<>> THEN <<>>
    ELSE <<Head(members).key, ":", "SP">> \o Head(members).value
         \o (IF Len(members) > 1
             THEN <<",", "SP">> \o MembersDumps(Tail(members))
             ELSE <<>>)

JsonDumps(object) == <<"{">> \o MembersDumps(object) \o <<"}">>

\* snapd.py:98  json.loads(text), over the objects of JsonObjects: the
\* whitespace between the tokens does not count, and a text that is not
\* the text of an object is a JSONDecodeError
JsonLoads(text) ==
    LET compact == SelectSeq(text, LAMBDA c : c \notin Whitespace)
        objects == {o \in JsonObjects : CompactText(o) = compact}
    IN  IF objects = {}
        THEN [exc |-> "JSONDecodeError", object |-> <<>>]
        ELSE [exc |-> "none", object |-> CHOOSE o \in objects : TRUE]

\* the match ends at the first closing brace
JsonMatchShortest(text) ==
    LET opens == {i \in 1..Len(text) : text[i] = "{"}
        first == IF opens = {} THEN 0
                 ELSE CHOOSE i \in opens : \A j \in opens : i <= j
        closes == {i \in 1..Len(text) : text[i] = "}" /\ i > first}
    IN  IF opens = {} \/ closes = {} THEN [found |-> FALSE, text |-> <<>>]
        ELSE [found |-> TRUE,
              text |-> SubSeq(text, first,
                         CHOOSE i \in closes : \A j \in closes : i <= j)]

\* snapd.py:91  re.search(r"{.*}", response, re.DOTALL): from the first
\* opening brace to the last closing brace after it
JsonMatch(text) ==
    LET opens == {i \in 1..Len(text) : text[i] = "{"}
        first == IF opens = {} THEN 0
                 ELSE CHOOSE i \in opens : \A j \in opens : i <= j
        closes == {i \in 1..Len(text) : text[i] = "}" /\ i > first}
    IN  IF opens = {} \/ closes = {} THEN [found |-> FALSE, text |-> <<>>]
        ELSE [found |-> TRUE,
              text |-> SubSeq(text, first,
                         CHOOSE i \in closes : \A j \in closes : j <= i)]

\* snapd.py:88-103  parse_json: no match and a text json.loads rejects are
\* both SnapdAPIError
ParseJson(text) ==
    LET json_match == JsonMatch(text) IN
    IF ~json_match.found
    THEN [exc |-> "SnapdAPIError", msg |-> [kind |-> "json extract"],
          object |-> <<>>]
    ELSE LET loaded == JsonLoads(json_match.text) IN
         IF loaded.exc # "none"
         THEN [exc |-> "SnapdAPIError", msg |-> [kind |-> "json parse"],
               object |-> <<>>]
         ELSE [exc |-> "none", msg |-> NoMessage, object |-> loaded.object]

\* object[key] : the value of the last member with that key, KeyError
\* when there is none
GetItem(object, key) ==
    LET at == {i \in 1..Len(object) : object[i].key = key} IN
    IF at = {} THEN [exc |-> "KeyError", value |-> <<>>]
    ELSE [exc |-> "none",
          value |-> object[CHOOSE i \in at : \A j \in at : j <= i].value]

\* snaps.py:52,58,62  response["result"] on a value get returned: a dict
\* is looked up by key (KeyError without that key), a list and a string
\* cannot be indexed by a string (TypeError).  The value of a JSON reply is
\* its text, an object being `{` key `:` value `,` ... `}`; the value of
\* an assertion reply is the list of documents.
GetterResult(h, value) ==
    IF HeaderGet(h.fields, <<"Content-Type">>)
         # [present |-> TRUE, value |-> <<"application/json">>]
       \/ value = <<>>
    THEN [exc |-> "TypeError", value |-> <<>>]
    ELSE IF Head(value) # "{"
    THEN [exc |-> "TypeError", value |-> <<>>]
    ELSE LET at == {i \in 1..(Len(value) - 1) :
                      value[i] = "'result'" /\ value[i + 1] = ":"}
         IN  IF at = {} THEN [exc |-> "KeyError", value |-> <<>>]
             ELSE LET i == CHOOSE j \in at : \A k \in at : k <= j
                      ends == {e \in (i + 2)..Len(value) :
                                 value[e] \in {",", "}"}}
                  IN  [exc |-> "none",
                       value |-> SubSeq(value, i + 2,
                                   (CHOOSE e \in ends :
                                      \A f \in ends : e <= f) - 1)]

\* an empty output is handed to the parser like any other
IsNoResponseNever(stdout) == FALSE

\* snapd.py:126  `if not response.stdout:`
IsNoResponse(stdout) == stdout = <<>>

\* snapd.py:130  status["status-code"] != "200"
IsSuccess(status_code) == status_code = <<"200">>

\* the message names no content type
ContentTypeNameless(content_type) == <<"None">>

\* snapd.py:143  f"...{content_type}": the value of the header, `None`
\* when the header is absent
ContentTypeName(content_type) ==
    IF content_type.present THEN content_type.value ELSE <<"None">>

\* snapd.py:129-143  the end of get: a status code other than 200 is an
\* error naming the code and the reason when the header has one; then the
\* Content-Type chooses: JSON returns the `result` member of the parsed
\* object (KeyError when it has none), assertions return the parsed
\* documents, anything else is an error naming the content type
Dispatch(h, b) ==
    LET content_type == HeaderGet(h.fields, <<"Content-Type">>) IN
    IF ~IsSuccess(h.status_code)
    THEN [exc |-> "SnapdAPIError", data |-> <<>>,
          msg |-> [kind |-> "status", code |-> h.status_code,
                   has_reason |-> h.has_reason, reason |-> h.reason]]
    ELSE IF content_type
            = [present |-> TRUE, value |-> <<"application/json">>]
    THEN LET parsed == ParseJson(b) IN
         IF parsed.exc # "none"
         THEN [exc |-> parsed.exc, data |-> <<>>, msg |-> parsed.msg]
         ELSE LET result == GetItem(parsed.object, "result") IN
              [exc |-> result.exc, data |-> result.value, msg |-> NoMessage]
    ELSE IF content_type
            = [present |-> TRUE,
               value |-> <<"application/x.ubuntu.assertion">>]
    THEN LET parsed == ParseAssertions(b) IN
         [exc |-> parsed.exc, data |-> parsed.docs,
          msg |-> IF parsed.exc = "none" THEN NoMessage
                  ELSE [kind |-> "assertions"]]
    ELSE [exc |-> "SnapdAPIError", data |-> <<>>,
          msg |-> [kind |-> "content type",
                   names |-> ContentTypeName(content_type)]]

\* The status lines a reply starts with: 200 with a reason, another code
\* with a reason of two words, a code without reason, and a line that has
\* no status code (tests/interfaces/test_snapd.py:67-118,327-343)
StatusLines ==
    {[code |-> <<"200">>, reason |-> <<"OK">>,
      text |-> <<"HTTP/1.1", "SP", "200", "SP", "OK">>],
     [code |-> <<"404">>, reason |-> <<"Not", "SP", "Found">>,
      text |-> <<"HTTP/1.1", "SP", "404", "SP", "Not", "SP", "Found">>],
     [code |-> <<"500">>, reason |-> <<>>,
      text |-> <<"HTTP/1.1", "SP", "500">>],
     [code |-> <<>>, reason |-> <<>>, text |-> <<"HTTP/1.1">>]}

\* the Content-Type of a reply: the two the client reads, another one, none
ContentTypes ==
    {[present |-> TRUE, value |-> <<"application/json">>],
     [present |-> TRUE, value |-> <<"application/x.ubuntu.assertion">>],
     [present |-> TRUE, value |-> <<"text/plain">>],
     [present |-> FALSE, value |-> <<>>]}

\* how the body travels: as it is, as a well-formed chunk stream, or as a
\* chunk stream cut before its zero-size chunk
Transfers == {"identity", "chunked", "chunked, truncated"}

\* what stands around the JSON object of a body
\* (tests/interfaces/test_snapd.py:182-210)
JsonWraps ==
    {[pre |-> <<>>, post |-> <<>>],
     [pre |-> <<"SP", "SP">>, post |-> <<"SP", "LF">>],
     [pre |-> <<"Some", "SP", "text", "SP", "before", "LF">>, post |-> <<>>]}

\* the bodies of a reply: a JSON object of JsonObjects, no JSON object
\* (tests/interfaces/test_snapd.py:212-229), invalid JSON, or assertions
Contents ==
    {[kind |-> "json", object |-> o, segments |-> <<>>,
      text |-> w.pre \o JsonDumps(o) \o w.post] :
        o \in JsonObjects, w \in JsonWraps}
    \cup
    {[kind |-> "no json", object |-> <<>>, segments |-> <<>>, text |-> t] :
        t \in {<<>>, <<"No", "SP", "JSON", "SP", "here">>, <<"[", "]">>}}
    \cup
    {[kind |-> "invalid json", object |-> <<>>, segments |-> <<>>,
      text |-> <<"{", "invalid", "SP", "json", "}">>]}
    \cup
    {[kind |-> "assertions", object |-> <<>>, segments |-> ss,
      text |-> AssertionBody(ss, <<"LF">>, "blank line")] :
        ss \in SeqsUpTo(Assertions, MaxSegments) \ {<<>>}}

\* a body cut in two chunks (one chunk for one character, none for none)
TwoChunks(text) ==
    IF text = <<>> THEN <<>>
    ELSE IF Len(text) = 1 THEN <<text>>
    ELSE <<SubSeq(text, 1, Len(text) \div 2),
           SubSeq(text, (Len(text) \div 2) + 1, Len(text))>>

\* the body of a reply as it travels
BodyText(transfer, text, eol) ==
    LET stream == EncodeChunks(TwoChunks(text), eol) IN
    CASE transfer = "identity" -> text
      [] transfer = "chunked" -> stream
      [] OTHER -> SubSeq(stream, 1, Len(stream) - Len(eol) - 1)

\* the header lines of a reply
HeaderLines(status, ctype, transfer) ==
    <<status.text>>
    \o (IF transfer = "identity" THEN <<>>
        ELSE << <<"Transfer-Encoding", ":", "SP", "chunked">> >>)
    \o (IF ctype.present
        THEN << <<"Content-Type", ":", "SP">> \o ctype.value >>
        ELSE <<>>)

\* The replies of the daemon, as the `nc` command prints them: the header
\* lines, a blank line and the body; the header lines alone when the reply
\* was cut before its blank line (`complete` is FALSE); nothing at all,
\* with or without a message on stderr
\* (tests/interfaces/test_snapd.py:272-366).
TextReplies ==
    {[kind |-> "text", complete |-> TRUE, stderr |-> <<>>, status |-> s,
      ctype |-> c, transfer |-> t, content |-> b,
      stdout |-> Join(eol, HeaderLines(s, c, t)) \o eol \o eol
                 \o BodyText(t, b.text, eol)] :
        s \in StatusLines, c \in ContentTypes, t \in Transfers,
        b \in Contents, eol \in LineEnds}

NoContent == [kind |-> "no json", object |-> <<>>, segments |-> <<>>,
              text |-> <<>>]

CutReplies ==
    {[kind |-> "text", complete |-> FALSE, stderr |-> <<>>, status |-> s,
      ctype |-> c, transfer |-> "identity", content |-> NoContent,
      stdout |-> Join(eol, HeaderLines(s, c, "identity")) \o eol] :
        s \in StatusLines, c \in ContentTypes, eol \in LineEnds}

EmptyReplies ==
    {[kind |-> "empty", complete |-> FALSE, stderr |-> e,
      status |-> CHOOSE s \in StatusLines : s.code = <<>>,
      ctype |-> [present |-> FALSE, value |-> <<>>],
      transfer |-> "identity", content |-> NoContent, stdout |-> <<>>] :
        e \in {<<>>, <<"Connection", "SP", "failed">>}}

Replies == TextReplies \cup CutReplies \cup EmptyReplies

\* the lines of a header after its status line
\* (tests/interfaces/test_snapd.py:67-118): a field given twice with two
\* values, a value that holds `: `, a value that holds a colon without
\* space, and a line without separator
FieldLines ==
    {<<"Date", ":", "SP", "a">>,
     <<"Date", ":", "SP", "b">>,
     <<"Warning", ":", "SP", "x", ":", "SP", "y">>,
     <<"Time", ":", "SP", "1", ":", "2">>,
     <<"Server">>}

\* the raw headers parse_header is called with: the status line and up to
\* MaxFields lines, each line but the last followed by a line terminator
RawHeaders ==
    {[lines |-> ls,
      raw_header |-> Join(eol, <<<<"HTTP/1.1", "SP", "200", "SP", "OK">>>>
                               \o ls)] :
        ls \in SeqsUpTo(FieldLines, MaxFields), eol \in LineEnds}

\* the calls of get: the request of snaps.py:45-58 and the daemon's reply
GetCalls ==
    {[endpoint |-> <<"snaps">>, params |-> <<>>, reply |-> r] :
        r \in Replies}
    \cup
    {[endpoint |-> <<"changes">>,
      params |-> <<[key |-> "select", value |-> "all"]>>, reply |-> r] :
        r \in Replies}

\* the endpoints and parameters the callers ask for (snaps.py:45-58,
\* tests/interfaces/test_snapd.py:25-42)
Endpoints == {<<"snaps">>, <<"changes">>}
ParamLists ==
    {<<>>, <<[key |-> "select", value |-> "all"]>>,
     <<[key |-> "snaps", value |-> "core"],
       [key |-> "select", value |-> "enabled"]>>}
Urls == {CreateGetRequestUrl(e, p) : e \in Endpoints, p \in ParamLists}

\* ------------------------------------------------------------ the registry
\* The interface classes: the ones of tests/devices/test_registry.py:10-31,
\* the class InterfaceA of tests/devices/test_devices.py:8 (another class of
\* the same name) and two classes that require each other.  A class is
\* known by its module and name; `name` is its __name__ and `requires` the
\* classes of its `requires` tuple (interfaces/__init__.py:16-20).
InterfaceClasses ==
    {[id |-> "test_registry.InterfaceA", name |-> "InterfaceA",
      requires |-> {}],
     [id |-> "test_registry.InterfaceB", name |-> "InterfaceB",
      requires |-> {}],
     [id |-> "test_registry.InterfaceC", name |-> "InterfaceC",
      requires |-> {"test_registry.InterfaceA"}],
     [id |-> "test_registry.InterfaceD", name |-> "InterfaceD",
      requires |-> {"test_registry.InterfaceA", "test_registry.InterfaceB"}],
     [id |-> "test_devices.InterfaceA", name |-> "InterfaceA",
      requires |-> {}],
     [id |-> "InterfaceP", name |-> "InterfaceP", requires |-> {"InterfaceQ"}],
     [id |-> "InterfaceQ", name |-> "InterfaceQ", requires |-> {"InterfaceP"}]}

ClassIds == {c.id : c \in InterfaceClasses}

ClassOf(id) == CHOOSE c \in InterfaceClasses : c.id = id

\* registry.py:33,46  type(interface).__name__ / interface_cls.__name__
ClassName(id) == ClassOf(id).name

\* registry.py:44-49  _register: the next interface is stored under the name
\* of its class, unless that name is taken.  An interface is known by its
\* place in the sequence the registry is constructed from.
Register(reg, interfaces, i) ==
    LET identifier == ClassName(interfaces[i]) IN
    IF identifier \in DOMAIN reg
    THEN [exc |-> "DeviceInterfaceError", registry |-> reg,
          msg |-> [kind |-> "duplicate", names |-> {identifier}]]
    ELSE [exc |-> "none", registry |-> reg @@ (identifier :> i),
          msg |-> NoMessage]

\* registry.py:61  sorted(missing): class names in the order of str; the
\* names of InterfaceClasses, least first
NameOrder ==
    <<"InterfaceA", "InterfaceB", "InterfaceC", "InterfaceD", "InterfaceP",
      "InterfaceQ">>

Sorted(names) == SelectSeq(NameOrder, LAMBDA n : n \in names)

\* registry.py:53-60  the names of the classes the registered interfaces
\* require, less the names registered
Missing(reg, interfaces) ==
    {ClassName(r) : r \in UNION {ClassOf(interfaces[reg[n]]).requires :
                                   n \in DOMAIN reg}}
    \ DOMAIN reg

\* registry.py:51-64  _check_requirements; the message lists the missing
\* names in sorted order, once each
CheckRequirements(reg, interfaces) ==
    IF Missing(reg, interfaces) # {}
    THEN [exc |-> "DeviceInterfaceError", registry |-> reg,
          msg |-> [kind |-> "missing",
                   names |-> Sorted(Missing(reg, interfaces))]]
    ELSE [exc |-> "none", registry |-> reg, msg |-> NoMessage]

\* registry.py:24-28  __init__: the interfaces are registered in order, the
\* first duplicate ends construction; then the requirements are checked
RECURSIVE RegisterFrom(_, _, _)
RegisterFrom(reg, interfaces, i) ==
    IF i > Len(interfaces) THEN CheckRequirements(reg, interfaces)
    ELSE LET r == Register(reg, interfaces, i) IN
         IF r.exc # "none" THEN r
         ELSE RegisterFrom(r.registry, interfaces, i + 1)

Construct(interfaces) == RegisterFrom(<<>>, interfaces, 1)

\* registry.py:30-38  __getitem__: the interface stored under the name of
\* the class asked for (`found` is its place in the sequence the registry
\* was constructed from), or DeviceInterfaceError "No ... interface
\* registered"
RegistryGetItem(reg, interface_cls) ==
    LET identifier == ClassName(interface_cls) IN
    IF identifier \in DOMAIN reg
    THEN [exc |-> "none", found |-> reg[identifier], msg |-> NoMessage]
    ELSE [exc |-> "DeviceInterfaceError", found |-> 0,
          msg |-> [kind |-> "not registered", names |-> {identifier}]]

\* the sequences of interfaces a registry is constructed from
InterfaceLists ==
    {[interfaces |-> s] : s \in SeqsUpTo(ClassIds, MaxInterfaces)}

\* a constructed registry and the class it is asked for
Lookups ==
    {[interfaces |-> l.interfaces, interface_cls |-> c] :
       l \in {x \in InterfaceLists : Construct(x.interfaces).exc = "none"},
       c \in ClassIds}

\* ---------------------------------------------------------- the connector
\* A plug or slot dict of the daemon's `connections` endpoint
\* (entities/connections.py:4-49) is a function of the keys it has:
\* "snap", "plug" or "slot", "interface", and perhaps "attrs" and
\* "connections".  None is Python's None.
None == "None"

\* connector.py:10-20  PredicateCheckResult(result, message=None); a message
\* is None or a text
NoneMessage == [none |-> TRUE]

Message(text) == [none |-> FALSE, text |-> text]

PredicateCheckResult(result, message) ==
    [exc |-> "none", result |-> result, message |-> message]

\* entities/connections.py:59-66  SnapConnection.from_dicts
FromDicts(plug, slot) ==
    [plug_snap |-> plug.snap, plug_name |-> plug.plug,
     slot_snap |-> slot.snap, slot_name |-> slot.slot]

\* entities/connections.py:84-85  SnapConnection.__str__
ConnectionStr(c) ==
    <<c.plug_snap, ":", c.plug_name, "/", c.slot_snap, ":", c.slot_name>>

\* connector.py:56-68  MatchAttributes.check
MatchAttributesAllKeys(plug, slot) ==
    IF plug.interface # slot.interface
    THEN [exc |-> "AssertionError", result |-> FALSE, message |-> NoneMessage]
    ELSE IF "attrs" \notin DOMAIN plug \/ "attrs" \notin DOMAIN slot
    THEN PredicateCheckResult(TRUE, NoneMessage)
    ELSE PredicateCheckResult(plug.attrs = slot.attrs, NoneMessage)

MatchAttributesCheck(plug, slot) ==
    IF plug.interface # slot.interface
    THEN [exc |-> "AssertionError", result |-> FALSE, message |-> NoneMessage]
    ELSE IF "attrs" \notin DOMAIN plug \/ "attrs" \notin DOMAIN slot
    THEN PredicateCheckResult(TRUE, NoneMessage)
    ELSE LET plug_attributes == plug.attrs
             slot_attributes == slot.attrs
             common_attributes ==
                 DOMAIN plug_attributes \cap DOMAIN slot_attributes
         IN PredicateCheckResult(
                \A attribute \in common_attributes :
                   plug_attributes[attribute] = slot_attributes[attribute],
                NoneMessage)

\* connector.py:75-76  DifferentSnaps.check
DifferentSnapsAccepts(plug, slot) == PredicateCheckResult(TRUE, NoneMessage)

DifferentSnapsCheck(plug, slot) ==
    PredicateCheckResult(plug.snap # slot.snap, NoneMessage)

\* connector.py:82-86  SelectSnaps(snaps).check
SelectSnapsCheck(snaps, plug, slot) ==
    PredicateCheckResult(plug.snap \in snaps, NoneMessage)

\* connector.py:118-121  whether a blacklist entry matches the pair
EntryMatchesExactly(entry, plug, slot) ==
    /\ entry.plug_snap = plug.snap
    /\ entry.plug_name = plug.plug
    /\ entry.slot_snap = slot.snap
    /\ entry.slot_name = slot.slot

EntryMatches(entry, plug, slot) ==
    /\ (entry.plug_snap = None \/ entry.plug_snap = plug.snap)
    /\ (entry.plug_name = None \/ entry.plug_name = plug.plug)
    /\ (entry.slot_snap = None \/ entry.slot_snap = slot.snap)
    /\ (entry.slot_name = None \/ entry.slot_name = slot.slot)

\* connector.py:116-129  Blacklist(blacklist).check
BlacklistCheck(blacklist, plug, slot) ==
    LET result == ~ \E i \in 1..Len(blacklist) :
                       EntryMatches(blacklist[i], plug, slot)
        message == IF result THEN NoneMessage
                   ELSE Message(<<"Connection '">>
                                \o ConnectionStr(FromDicts(plug, slot))
                                \o <<"' is blacklisted">>)
    IN PredicateCheckResult(result, message)

\* connector.py:166  predicate.check(plug, slot), by the predicate's class
Check(predicate, plug, slot) ==
    CASE predicate.kind = "MatchAttributes" -> MatchAttributesCheck(plug, slot)
      [] predicate.kind = "DifferentSnaps" -> DifferentSnapsCheck(plug, slot)
      [] predicate.kind = "SelectSnaps" ->
            SelectSnapsCheck(predicate.snaps, plug, slot)
      [] predicate.kind = "Blacklist" ->
            BlacklistCheck(predicate.blacklist, plug, slot)

\* connector.py:133-139  SnapConnector.__init__: the two default predicates,
\* then the caller's
SnapConnectorPredicates(predicates) ==
    <<[kind |-> "MatchAttributes"], [kind |-> "DifferentSnaps"]>>
    \o predicates

\* connector.py:97-108  Blacklist.from_dict: every entry of every item's
\* `match` list, in order; entry.get(key) is None for a key the entry lacks
EntryGet(entry, key) == IF key \in DOMAIN entry THEN entry[key] ELSE None

EntryConnection(entry) ==
    [plug_snap |-> EntryGet(entry, "plug_snap"),
     plug_name |-> EntryGet(entry, "plug_name"),
     slot_snap |-> EntryGet(entry, "slot_snap"),
     slot_name |-> EntryGet(entry, "slot_name")]

RECURSIVE FromDictItems(_, _)
FromDictItems(items, i) ==
    IF i > Len(items) THEN [exc |-> "none", blacklist |-> <<>>]
    ELSE IF "match" \notin DOMAIN items[i]
    THEN [exc |-> "KeyError", blacklist |-> <<>>]
    ELSE LET rest == FromDictItems(items, i + 1)
             here == [k \in 1..Len(items[i].match) |->
                         EntryConnection(items[i].match[k])]
         IN IF rest.exc # "none" THEN rest
            ELSE [exc |-> "none", blacklist |-> here \o rest.blacklist]

FromDict(blacklist_data) ==
    IF "items" \notin DOMAIN blacklist_data
    THEN [exc |-> "KeyError", blacklist |-> <<>>]
    ELSE FromDictItems(blacklist_data.items, 1)

\* connector.py:152-156  the plugs without a "connections" key, by interface
InterfacePlugs(snap_connection_data) ==
    LET unconnected == SelectSeq(snap_connection_data.plugs,
                                 LAMBDA plug : "connections" \notin DOMAIN plug)
    IN [interface \in {unconnected[k].interface : k \in 1..Len(unconnected)}
          |-> SelectSeq(unconnected, LAMBDA plug : plug.interface = interface)]

\* connector.py:162-164  the pairs the two loops visit, in order
PairsOfOneSlot(snap_connection_data, j) ==
    IF j > Len(snap_connection_data.slots) THEN <<>>
    ELSE LET slot == snap_connection_data.slots[j]
             interface_plugs == InterfacePlugs(snap_connection_data)
             plugs == IF slot.interface \in DOMAIN interface_plugs
                      THEN interface_plugs[slot.interface] ELSE <<>>
         IN [k \in 1..Len(plugs) |-> [plug |-> plugs[k], slot |-> slot]]

RECURSIVE PairsFrom(_, _)
PairsFrom(snap_connection_data, j) ==
    IF j > Len(snap_connection_data.slots) THEN <<>>
    ELSE LET slot == snap_connection_data.slots[j]
             interface_plugs == InterfacePlugs(snap_connection_data)
             plugs == IF slot.interface \in DOMAIN interface_plugs
                      THEN interface_plugs[slot.interface] ELSE <<>>
         IN [k \in 1..Len(plugs) |-> [plug |-> plugs[k], slot |-> slot]]
            \o PairsFrom(snap_connection_data, j + 1)

\* connector.py:170  filter(bool, messages): None and "" are dropped
MessageBool(message) == ~message.none /\ message.text # <<>>

RECURSIVE Extend(_, _)
Extend(lists, n) ==
    IF n > Len(lists) THEN <<>>
    ELSE SelectSeq(lists[n], MessageBool) \o Extend(lists, n + 1)

\* connector.py:141-171  SnapConnector.process: `pairs` are the pairs the
\* loops visited and `checks` the results of the predicate checks of each;
\* `messages` is the local the
\* loop body binds, the tuple of the messages of the pair visited last, and
\* is what the function returns beside `connections`; it is unbound when
\* the loop body never ran
Process(predicates, snap_connection_data) ==
    LET pairs == PairsFrom(snap_connection_data, 1)
        checks == [n \in 1..Len(pairs) |->
                     [k \in 1..Len(predicates) |->
                        Check(predicates[k], pairs[n].plug, pairs[n].slot)]]
        messages == [n \in 1..Len(pairs) |->
                       [k \in 1..Len(predicates) |-> checks[n][k].message]]
        connections ==
            {FromDicts(pairs[n].plug, pairs[n].slot) :
               n \in {i \in 1..Len(pairs) :
                        \A k \in 1..Len(predicates) : checks[i][k].result}}
        aggregate_messages == Extend(messages, 1)
    IN IF pairs = <<>>
       THEN [exc |-> "UnboundLocalError", connections |-> connections,
             messages |-> <<>>, pairs |-> pairs, checks |-> checks,
             aggregate_messages |-> aggregate_messages]
       ELSE [exc |-> "none", connections |-> connections,
             messages |-> messages[Len(pairs)], pairs |-> pairs,
             checks |-> checks, aggregate_messages |-> aggregate_messages]

\* The topologies process is called with: a plug of checkbox on the
\* `content` interface without a "connections" key, with an empty list and
\* with a connection, such a plug of snapd, and a `gpio` plug; `content`
\* slots of snapd with the plug's attribute value (with and without
\* connections of its own) and with another value, and a `gpio` slot
\* (tests/checkbox/helpers/test_connector.py:339-480).
PlugConnections ==
    {<<>>, [connections |-> <<>>],
     [connections |-> <<[snap |-> "snapd", slot |-> "slot-a"]>>]}

PlugDicts ==
    {[snap |-> "checkbox", plug |-> "plug", interface |-> "content",
      attrs |-> [content |-> "a"]] @@ c : c \in PlugConnections}
    \cup {[snap |-> "snapd", plug |-> "plug", interface |-> "content",
           attrs |-> [content |-> "a"]],
          [snap |-> "checkbox", plug |-> "gpio", interface |-> "gpio"]}

SlotConnections ==
    {<<>>, [connections |-> <<[snap |-> "other", plug |-> "plug"]>>]}

SlotDicts ==
    {[snap |-> "snapd", slot |-> "slot-a", interface |-> "content",
      attrs |-> [content |-> "a"]] @@ c : c \in SlotConnections}
    \cup {[snap |-> "snapd", slot |-> "slot-b", interface |-> "content",
           attrs |-> [content |-> "b"]],
          [snap |-> "pi", slot |-> "gpio", interface |-> "gpio",
           attrs |-> [number |-> "1"]]}

\* the predicates a caller hands to SnapConnector: none, a blacklist, a
\* selection of snaps (test_connector.py:443-480)
CallerPredicates ==
    {<<>>,
     <<[kind |-> "Blacklist",
        blacklist |-> <<[plug_snap |-> "checkbox", plug_name |-> None,
                         slot_snap |-> None, slot_name |-> "slot-a"]>>]>>,
     <<[kind |-> "SelectSnaps", snaps |-> {"checkbox"}]>>}

\* the topology process is called with between two calls with one
\* topology: a plug and a slot that make a candidate
InBetween ==
    [plugs |-> <<[snap |-> "checkbox", plug |-> "plug",
                  interface |-> "content", attrs |-> [content |-> "a"]]>>,
     slots |-> <<[snap |-> "snapd", slot |-> "slot-a",
                  interface |-> "content", attrs |-> [content |-> "a"]]>>]

Topologies ==
    {[predicates |-> p, data |-> [plugs |-> ps, slots |-> ss]] :
       p \in CallerPredicates,
       ps \in SeqsUpTo(PlugDicts, MaxPlugs),
       ss \in SeqsUpTo(SlotDicts, MaxSlots)}

\* The blacklists Blacklist.check is called with, and the pairs: an entry
\* names the four fields, or has a wildcard for one of them, or for all;
\* every field of a pair is the name the entries have or another
\* (test_connector.py:187-300).
BlacklistEntries ==
    LET exact == [plug_snap |-> "firefox", plug_name |-> "camera",
                  slot_snap |-> "snapd", slot_name |-> "camera"]
    IN {exact, [f \in DOMAIN exact |-> None]}
       \cup {[exact EXCEPT ![f] = None] : f \in DOMAIN exact}

BlacklistChecks ==
    {[blacklist |-> b, plug |-> p, slot |-> s] :
       b \in SeqsUpTo(BlacklistEntries, MaxEntries),
       p \in [snap : {"firefox", "chromium"}, plug : {"camera", "network"}],
       s \in [snap : {"snapd", "pulseaudio"}, slot : {"camera", "network"}]}

\* The blacklist documents from_dict is called with: items with a `match`
\* list and without, entries with the four keys (null or not), with a key
\* missing and with a key misspelled (test_connector.py:99-185).
EntryDicts ==
    {[plug_snap |-> "firefox", plug_name |-> "camera", slot_snap |-> "snapd",
      slot_name |-> "camera"],
     [plug_snap |-> None, plug_name |-> "network", slot_snap |-> "snapd",
      slot_name |-> None],
     [plug_snap |-> "firefox", plug_name |-> "camera", slot_snap |-> "snapd"],
     [plug_snap |-> "firefox", plug_name |-> "camera", slot_snap |-> "snapd",
      slot_nmae |-> "camera"]}

BlacklistItems ==
    {[match |-> es] : es \in SeqsUpTo(EntryDicts, MaxMatch)}
    \cup {[comment |-> "camera"]}

BlacklistDocuments ==
    {[blacklist_data |-> [items |-> is]] :
       is \in SeqsUpTo(BlacklistItems, MaxItems)}

\* The plugs and slots MatchAttributes.check is called with: `attrs` absent
\* or a mapping of some of two keys (test_connector.py:20-48).
AttributeKeys == {"content", "extra"}

AttributeValues == {"a", "b"}

AttributeMaps ==
    UNION {[keys -> AttributeValues] : keys \in SUBSET AttributeKeys}

AttributeChecks ==
    {[plug |-> [interface |-> "content"] @@ pa,
      slot |-> [interface |-> i] @@ sa] :
       i \in {"content", "gpio"},
       pa \in {<<>>} \cup {[attrs |-> a] : a \in AttributeMaps},
       sa \in {<<>>} \cup {[attrs |-> a] : a \in AttributeMaps}}

\* ------------------------------------------------------------ the daemon
\* A change of the daemon's /v2/changes list: snaps.py:66,72-75 read
\* change["id"], change["ready"], change["status"].
ChangeKinds == {"Doing", "Done", "Error"}
ChangeOf(i, k) == [id |-> i, ready |-> (k # "Doing"), status |-> k]
ChangeLists ==
    UNION {{[i \in 1..n |-> ChangeOf(i, f[i])] : f \in [1..n -> ChangeKinds]}
           : n \in 0..MaxChanges}

\* snaps.py:66  complete = all(change["ready"] for change in changes)
AllReady(cs) == \A i \in 1..Len(cs) : cs[i].ready

\* snaps.py:82-85  `not complete and ...is_reboot_required()`: the marker is
\* queried only when the poll was incomplete (short-circuit `and`)
QueriesMarker(complete) == ~complete

\* the probe reboots on every incomplete poll, whatever the marker says
TakesRebootUnasked(complete, required) == ~complete

\* snaps.py:82-87  the reboot branch is taken
TakesReboot(complete, required) == ~complete /\ required

\* status.py:15-48  the methods SystemStatusInterface defines
SystemStatusInterfaceMethods == {"get_status", "wait_for_status"}

\* snaps.py:88  the method the probe looks up on SystemStatusInterface
StatusWaitMethod == "wait_for_running"

\* outcomes of the `snap install|refresh --no-wait` command: exit status,
\* the change id printed on stdout (0: none), stderr reporting "not found"
CommandResults ==
    {[exited |-> 0, change_id |-> i, not_found |-> FALSE] : i \in 0..1}
        \cup {[exited |-> 1, change_id |-> 0, not_found |-> nf] : nf \in BOOLEAN}

\* what `systemctl is-system-running` prints ("" : nothing)
StatusOutputs == {"", "running", "degraded", "starting"}
AllowedExtra == {"degraded", "starting"}

\* status.py:29-40  get_status: the BooleanResult's truth value
StatusOk(out, allowed) ==
    IF out = "" THEN FALSE ELSE out \in ({"running"} \cup allowed)

\* status.py:20-23  device.run raised ExecutionError (devices/__init__.py
\* wraps every transport failure in it) instead of returning an output
ExecutionFailed == "ExecutionError"

\* what one `systemctl is-system-running` execution comes to
StatusRuns == StatusOutputs \cup {ExecutionFailed}

\* the allowed set is taken as given: `running` only when the caller names it
GetStatusAsGiven(run, allowed) ==
    IF run = ExecutionFailed \/ run = ""
    THEN [ok |-> FALSE, message |-> None]
    ELSE [ok |-> run \in allowed, message |-> run]

\* status.py:18-40  get_status: the BooleanResult (results.py:4-6) of one
\* execution; an ExecutionError and an empty status give
\* BooleanResult(False), whose message is None; otherwise the status is
\* the message
GetStatus(run, allowed) ==
    IF run = ExecutionFailed \/ run = ""
    THEN [ok |-> FALSE, message |-> None]
    ELSE [ok |-> StatusOk(run, allowed), message |-> run]

LinearPolicies ==
    {Linear(TRUE, t, d) : t \in Times, d \in Delays}
        \cup {Linear(FALSE, 0, d) : d \in Delays}
CustomPolicies == {Custom(<<0, 1>>), Custom(<<1, 0, 1>>)}
Policies == LinearPolicies \cup CustomPolicies \cup {NoPolicy}
SnapPolicies == LinearPolicies \cup {NoPolicy}
StatusPolicies == {NoPolicy, Linear(TRUE, 1, 0), Linear(FALSE, 0, 1)}
InstallPolicies == {Linear(TRUE, 0, 0), Linear(TRUE, 1, 1)}

\* ------------------------------------------------------------------ state
VARIABLES
    op,        \* the entry point that was called
    stack,     \* frames of the running retry() calls, innermost last
    outcome,   \* "running", "returned" or "raised" (of the entry point)
    retval,    \* value returned by the entry point
    exc,       \* exception that escaped the entry point
    status_policy, \* argument of wait_for_snap_changes, bound into the probe
    ppc,       \* position inside check_snap_changes_complete_and_reboot
    ev,        \* what the current (or last) probe did to the device, in order
    firstPoll, \* result of the probe's first poll ("none" before it)
    marker,    \* answer of is_reboot_required ("none" when not asked)
    lastPoll,  \* result of the probe's latest poll
    changes,   \* the change list the latest poll fetched
    swArgs,    \* arguments of the probe's status wait
    swResult,  \* what the probe's status wait returned ("none": nothing yet)
    status_runs,  \* the status commands run so far, each with its result
    reboots,   \* reboots issued since the entry point was called
    polls,     \* change polls made since the entry point was called
    ipc,       \* position inside SnapInterface.install
    ipolicy,   \* install's `policy` argument
    cmd,       \* result of the `snap install|refresh --no-wait` command
    wait_result,  \* install's local `wait_result`
    snap_change,  \* status of the change get_change returned to install
    lookups,   \* get_change calls made by install
    arg,       \* the arguments of a library function called on its own
    waits_gen, \* the generator a direct Linear(...).waits() call returned
    yielded,   \* the values taken from that generator, in order
    data,      \* the value a library function returned
    msg,       \* what the message of a raised SnapdAPIError names
    cpc,       \* position inside SnapdAPIClient.get
    request,   \* the request text get wrote to the socket
    response,  \* the Result of the `nc` command: stdout and stderr
    header,    \* get's local `header`
    body,      \* get's local `body`
    runs,      \* the device.run invocations of the client so far
    getter,    \* what the getter of SnapInterface made of get's value
    registry,  \* DeviceInterfaceRegistry.registry
    rpc,       \* position inside DeviceInterfaceRegistry.__init__
    found,     \* the interface registry[...] returned: its place among the
               \* interfaces the registry was constructed from (0: none)
    connector, \* SnapConnector.predicates of the connector process is called on
    resolved   \* the calls of process made on the connector, in order: the
               \* topology, the exception and the connections returned

probeVars == <<status_policy, ppc, ev, firstPoll, marker, lastPoll, changes,
               swArgs, swResult, status_runs, reboots, polls>>

installVars == <<ipc, ipolicy, cmd, wait_result, snap_change, lookups>>

\* the state of the library functions called on their own
clientVars == <<cpc, request, response, header, body, runs, getter>>

registryVars == <<registry, rpc, found>>

connectorVars == <<connector, resolved>>

libVars ==
    <<arg, waits_gen, yielded, data, msg, clientVars, registryVars,
      connectorVars>>

vars == <<op, stack, outcome, retval, exc, probeVars, installVars, libVars>>

\* retries.py:37-62  the local state of one retry() call
Frame(script, policy, allowed) ==
    [script |-> script,            \* the probe: "generic", "get_status", ...
     policy |-> policy,            \* the policy argument
     allowed |-> allowed,          \* bound argument of the get_status partial
     gen |-> EffectivePolicy(policy),  \* policy.waits(), as far as consumed
     pc |-> "call",
     wait |-> 0,                   \* loop variable `wait`
     result |-> "None",            \* local `result`
     calls |-> <<>>,               \* values returned by the probe, in order
     sleeps |-> <<>>,              \* arguments of sleep(), in order
     log |-> <<>>,                 \* "call" / "sleep" events, in order
     consumed |-> 0]               \* durations taken from the generator

Top == stack[Len(stack)]

SetTop(f) == [stack EXCEPT ![Len(stack)] = f]

\* retry keeps going after a truthy result
ReturnedKeepsGoing(f, v) ==
    [f EXCEPT !.result = v,
              !.calls = Append(@, v),
              !.pc = "next"]

\* retries.py:44-46,56-59  the probe returned v
Returned(f, v) ==
    [f EXCEPT !.result = v,
              !.calls = Append(@, v),
              !.pc = IF Truthy(v) THEN "done" ELSE "next"]

\* the exception is caught and dropped where it is raised
RaiseSwallowed(e) ==
    /\ exc' = e
    /\ UNCHANGED <<op, outcome, retval>>

\* an exception escapes every frame: nothing in the core catches it
Raise(e) ==
    /\ outcome' = "raised"
    /\ exc' = e
    /\ UNCHANGED <<op, retval>>

\* no command was run yet
NoCommand == [exited |-> 0, change_id |-> 0, not_found |-> FALSE]

\* the library functions the model calls on their own
LibraryCalls ==
    {"waits", "create_get_request", "parse_chunked_body", "parse_assertions",
     "get", "registry", "registry_getitem", "process", "blacklist_check",
     "from_dict", "match_attributes", "parse_header"}

\* what each entry point is called with (the core's entry points take their
\* arguments from the frames and policies chosen in Init)
Arguments(o) ==
    CASE o = "waits" -> LinearCalls
      [] o = "create_get_request" -> [url : Urls]
      [] o = "parse_chunked_body" -> WellFormedStreams \cup MalformedStreams
      [] o = "parse_assertions" -> AssertionBodies \cup {InvalidAssertionBody}
      [] o = "get" -> GetCalls
      [] o = "registry" -> InterfaceLists
      [] o = "registry_getitem" -> Lookups
      [] o = "process" -> Topologies
      [] o = "blacklist_check" -> BlacklistChecks
      [] o = "from_dict" -> BlacklistDocuments
      [] o = "match_attributes" -> AttributeChecks
      [] o = "parse_header" -> RawHeaders
      [] OTHER -> {[none |-> TRUE]}

\* The entry points: retry() with a caller's probe (tests/test_retries.py),
\* SnapInterface.wait_for_snap_changes (cli/wait_for_snap_changes.py:26-29),
\* SystemStatusInterface.wait_for_status (cli/wait_for_ssh.py:37-39) and
\* SnapInterface.install (checkbox/installers/snaps.py:87-92,153-158).
Init ==
    /\ \/ /\ op = "retry"
          /\ \E p \in Policies : stack = <<Frame("generic", p, {})>>
          /\ status_policy = NoPolicy
          /\ ipolicy = NoPolicy
       \/ /\ op = "install"
          /\ stack = <<>>
          /\ status_policy = NoPolicy
          /\ ipolicy \in InstallPolicies
       \/ /\ op = "wait_for_snap_changes"
          /\ \E p \in SnapPolicies :
                stack = <<Frame("check_snap_changes", p, {})>>
          /\ status_policy \in StatusPolicies
          /\ ipolicy = NoPolicy
       \/ /\ op = "wait_for_status"
          /\ \E p \in StatusPolicies, a \in SUBSET AllowedExtra :
                stack = <<Frame("get_status", p, a)>>
          /\ status_policy = NoPolicy
          /\ ipolicy = NoPolicy
       \/ /\ op \in LibraryCalls
          /\ stack = <<>>
          /\ status_policy = NoPolicy
          /\ ipolicy = NoPolicy
    /\ arg \in Arguments(op)
    /\ waits_gen = IF op = "waits" THEN LinearCall(arg) ELSE NoPolicy
    /\ yielded = <<>>
    /\ data = <<>>
    /\ msg = NoMessage
    /\ cpc = IF op = "get" THEN "request" ELSE "none"
    /\ request = <<>>
    /\ response = NoResponse
    /\ header = NoHeader
    /\ body = <<>>
    /\ runs = 0
    /\ getter = NoGetter
    /\ registry = IF op = "registry_getitem"
                  THEN Construct(arg.interfaces).registry ELSE <<>>
    /\ rpc = CASE op = "registry" -> "register"
               [] op = "registry_getitem" -> "constructed"
               [] OTHER -> "none"
    /\ found = 0
    /\ connector = IF op = "process"
                   THEN SnapConnectorPredicates(arg.predicates) ELSE <<>>
    /\ resolved = <<>>
    /\ outcome = "running"
    /\ retval = "None"
    /\ exc = "none"
    /\ ppc = "idle"
    /\ ev = <<>>
    /\ firstPoll = "none"
    /\ marker = "none"
    /\ lastPoll = "none"
    /\ changes = <<>>
    /\ swArgs = [allowed |-> {}, policy |-> NoPolicy]
    /\ swResult = "none"
    /\ status_runs = <<>>
    /\ reboots = 0
    /\ polls = 0
    /\ ipc = IF op = "install" THEN "start" ELSE "none"
    /\ cmd = NoCommand
    /\ wait_result = "None"
    /\ snap_change = "none"
    /\ lookups = 0

Running == outcome = "running" /\ stack # <<>>

\* retries.py:44,56  result = script()   for a caller-supplied probe, which
\* returns a value or raises; retry has no try block (retries.py:37-62)
ScriptGeneric ==
    /\ Running
    /\ Top.pc = "call" /\ Top.script = "generic"
    /\ \/ /\ \E v \in ProbeValues :
               stack' = SetTop(Returned([Top EXCEPT !.log = Append(@, "call")],
                                        v))
          /\ UNCHANGED <<op, outcome, retval, exc>>
       \/ /\ stack' = SetTop([Top EXCEPT !.log = Append(@, "call"),
                                         !.pc = "raised"])
          /\ Raise("ProbeError")
    /\ UNCHANGED <<libVars, probeVars, installVars>>

\* status.py:18-40  get_status, called by retry as the probe
\* (status.py:46-48): one `systemctl is-system-running` command
ScriptGetStatus ==
    /\ Running
    /\ Top.pc = "call" /\ Top.script = "get_status"
    /\ \E run \in StatusRuns :
         LET result == GetStatus(run, Top.allowed) IN
           /\ status_runs' = Append(status_runs,
                                    [run |-> run, result |-> result])
           /\ stack' = SetTop(Returned([Top EXCEPT !.log = Append(@, "call")],
                                       PyBool(result.ok)))
    /\ UNCHANGED <<libVars, op, outcome, retval, exc, status_policy, ppc, ev,
                   firstPoll, marker, lastPoll, changes, swArgs, swResult,
                   reboots, polls, installVars>>

\* snaps.py:64-76  check_snap_changes_complete, as called at snaps.py:81
\* (first poll of a probe, entered from retries.py:44,56) and at snaps.py:91
\* (second poll).  get_changes (snaps.py:54-58) either returns a change list
\* or lets the client's exception through.
ProbePoll ==
    /\ Running
    /\ Top.script = "check_snap_changes"
    /\ \/ Top.pc = "call" /\ ppc = "idle"
       \/ ppc = "poll2"
    /\ polls' = polls + 1
    /\ \/ \E cs \in ChangeLists :
            LET complete == AllReady(cs)
                first == ppc = "idle"
                called == IF first THEN [Top EXCEPT !.log = Append(@, "call")]
                          ELSE Top
                goesOn == first /\ QueriesMarker(complete)
            IN  /\ changes' = cs
                /\ lastPoll' = PyBool(complete)
                /\ firstPoll' = IF first THEN PyBool(complete) ELSE firstPoll
                /\ marker' = IF first THEN "none" ELSE marker
                /\ ev' = IF first THEN <<"poll">> ELSE Append(ev, "poll")
                /\ ppc' = IF goesOn THEN "marker" ELSE "idle"
                /\ stack' = SetTop(IF goesOn
                                   THEN [called EXCEPT !.pc = "in_probe"]
                                   ELSE Returned(called, PyBool(complete)))
                /\ UNCHANGED <<op, outcome, retval, exc>>
       \/ /\ ev' = IF ppc = "idle" THEN <<"poll">> ELSE Append(ev, "poll")
          /\ firstPoll' = IF ppc = "idle" THEN "raised" ELSE firstPoll
          /\ marker' = IF ppc = "idle" THEN "none" ELSE marker
          /\ lastPoll' = "raised"
          /\ ppc' = "raised"
          /\ stack' = SetTop([Top EXCEPT !.pc = "raised",
                                !.log = IF ppc = "idle" THEN Append(@, "call")
                                        ELSE @])
          /\ Raise("SnapdAPIError")
          /\ UNCHANGED changes
    /\ swResult' = IF ppc = "idle" THEN "none" ELSE swResult
    /\ UNCHANGED <<libVars, status_policy, swArgs, status_runs, reboots,
                   installVars>>

\* snaps.py:84  RebootInterface.is_reboot_required (reboot.py:14-19): the
\* exit status of `test -f /run/reboot-required`; snaps.py:92 when not taken
ProbeMarker ==
    /\ Running
    /\ ppc = "marker"
    /\ \E required \in BOOLEAN :
         /\ marker' = PyBool(required)
         /\ ev' = Append(ev, "marker")
         /\ IF TakesReboot(firstPoll = "True", required)
            THEN /\ ppc' = "reboot"
                 /\ UNCHANGED stack
            ELSE /\ ppc' = "idle"
                 /\ stack' = SetTop(Returned(Top, lastPoll))
    /\ UNCHANGED <<libVars, op, outcome, retval, exc, status_policy, firstPoll,
                   lastPoll, changes, swArgs, swResult, status_runs, reboots,
                   polls, installVars>>

\* snaps.py:86-87  RebootInterface.reboot (reboot.py:21-25): `sudo reboot`
ProbeReboot ==
    /\ Running
    /\ ppc = "reboot"
    /\ reboots' = reboots + 1
    /\ ev' = Append(ev, "reboot")
    /\ ppc' = "status_wait"
    /\ UNCHANGED <<libVars, op, stack, outcome, retval, exc, status_policy, firstPoll,
                   marker, lastPoll, changes, swArgs, swResult, status_runs,
                   polls, installVars>>

\* snaps.py:88-90  interfaces[SystemStatusInterface].wait_for_running(
\* allowed={"degraded"}, policy=status_policy): the attribute lookup raises
\* AttributeError unless the class defines the method; when it does, the
\* call runs retry(get_status, policy) (status.py:42-48)
ProbeStatusWait ==
    /\ Running
    /\ ppc = "status_wait"
    /\ IF StatusWaitMethod \in SystemStatusInterfaceMethods
       THEN /\ ev' = Append(ev, "status_wait")
            /\ swArgs' = [allowed |-> {"degraded"}, policy |-> status_policy]
            /\ ppc' = "waiting"
            /\ stack' = Append(stack,
                               Frame("get_status", status_policy, {"degraded"}))
            /\ UNCHANGED <<op, outcome, retval, exc>>
       ELSE /\ ppc' = "raised"
            /\ stack' = SetTop([Top EXCEPT !.pc = "raised"])
            /\ Raise("AttributeError")
            /\ UNCHANGED <<ev, swArgs>>
    /\ UNCHANGED <<libVars, status_policy, firstPoll, marker, lastPoll, changes,
                   swResult, status_runs, reboots, polls, installVars>>

\* retries.py:48  `for wait in policy.waits():`  next element or exhaustion
\* retries.py:61-62  on exhaustion the last result is returned
RetryNext ==
    /\ Running
    /\ Top.pc = "next"
    /\ Top.gen.bounded \/ Top.consumed < MaxUnbounded
    /\ IF GenExhausted(Top.gen)
       THEN stack' = SetTop([Top EXCEPT !.pc = "done"])
       ELSE stack' = SetTop([Top EXCEPT !.wait = GenValue(Top.gen),
                                        !.gen = GenAdvance(@),
                                        !.consumed = @ + 1,
                                        !.pc = "sleep"])
    /\ UNCHANGED <<libVars, op, outcome, retval, exc, probeVars, installVars>>

\* retries.py:55  sleep(wait); time.sleep raises ValueError on a negative value
RetrySleep ==
    /\ Running
    /\ Top.pc = "sleep"
    /\ stack' = SetTop([Top EXCEPT !.sleeps = Append(@, Top.wait),
                                   !.log = Append(@, "sleep"),
                                   !.pc = IF Top.wait < 0 THEN "raised" ELSE "call"])
    /\ IF Top.wait < 0
       THEN Raise("ValueError")
       ELSE UNCHANGED <<op, outcome, retval, exc>>
    /\ UNCHANGED <<libVars, probeVars, installVars>>

\* retries.py:46,59,62  `return result`: back into the probe, which drops
\* the value (status.py:48, snaps.py:88-91); into install, which keeps it as
\* wait_result (snaps.py:105); or to the entry point's caller
RetryReturn ==
    /\ Running
    /\ Top.pc = "done"
    /\ IF Len(stack) > 1
       THEN /\ stack' = SubSeq(stack, 1, Len(stack) - 1)
            /\ ppc' = "poll2"
            /\ swResult' = Top.result
            /\ UNCHANGED <<outcome, retval, ipc, wait_result>>
       ELSE /\ stack' = SetTop([Top EXCEPT !.pc = "returned"])
            /\ UNCHANGED <<ppc, swResult>>
            /\ IF op = "install"
               THEN /\ wait_result' = Top.result
                    /\ ipc' = "get_change"
                    /\ UNCHANGED <<outcome, retval>>
               ELSE /\ outcome' = "returned"
                    /\ retval' = Top.result
                    /\ UNCHANGED <<ipc, wait_result>>
    /\ UNCHANGED <<libVars, op, exc, status_policy, ev, firstPoll, marker, lastPoll,
                   changes, swArgs, status_runs, reboots, polls, ipolicy, cmd,
                   snap_change, lookups>>

\* install treats every successful command as having started a change
NoChangeIdNever(c) == FALSE

\* the command printed no change id: nothing to wait for
NoChangeId(c) == c.change_id = 0

\* SnapInterface.install up to its wait: get_active only chooses between
\* `install` and `refresh`; the `snap install|refresh --no-wait` command is
\* run; a failed command raises (not found, or any other failure); no
\* change id means the snap is already as wanted and install returns;
\* otherwise wait_for_snap_changes(policy=policy) (snaps.py:94-105) starts,
\* its status_policy left to the default
InstallRun ==
    /\ outcome = "running" /\ ipc = "start"
    /\ \E c \in CommandResults :
         /\ cmd' = c
         /\ IF c.exited # 0
            THEN /\ ipc' = "raised"
                 /\ Raise(IF c.not_found THEN "SnapNotFoundError"
                          ELSE "SnapInstallError: stderr")
                 /\ UNCHANGED stack
            ELSE IF NoChangeId(c)
            THEN /\ ipc' = "returned"
                 /\ outcome' = "returned"
                 /\ retval' = "True"
                 /\ UNCHANGED <<op, exc, stack>>
            ELSE /\ ipc' = "waiting"
                 /\ stack' = <<Frame("check_snap_changes", ipolicy, {})>>
                 /\ UNCHANGED <<op, outcome, retval, exc>>
    /\ UNCHANGED <<libVars, probeVars, ipolicy, wait_result, snap_change, lookups>>

\* SnapInterface.install after its wait: the identified change is looked
\* up; a failed wait raises timed-out with the change's summary, a change
\* whose status is not "Done" raises incomplete, otherwise install returns
InstallGetChange ==
    /\ outcome = "running" /\ ipc = "get_change"
    /\ lookups' = lookups + 1
    /\ \E k \in ChangeKinds :
         /\ snap_change' = k
         /\ IF ~Truthy(wait_result)
            THEN /\ ipc' = "raised"
                 /\ Raise("SnapInstallError: timed-out")
            ELSE IF k # "Done"
            THEN /\ ipc' = "raised"
                 /\ Raise("SnapInstallError: incomplete")
            ELSE /\ ipc' = "returned"
                 /\ outcome' = "returned"
                 /\ retval' = "None"
                 /\ UNCHANGED <<op, exc>>
    /\ UNCHANGED <<libVars, stack, probeVars, ipolicy, cmd, wait_result>>

\* retries.py:29-34  one next() on the generator Linear(...).waits()
\* returned, as list() / islice() do in tests/test_retries.py:9-35:
\* StopIteration ends the draining
WaitsNext ==
    /\ op = "waits" /\ outcome = "running"
    /\ IF GenExhausted(waits_gen)
       THEN /\ outcome' = "returned"
            /\ UNCHANGED <<waits_gen, yielded>>
       ELSE /\ waits_gen.bounded \/ Len(yielded) < MaxUnbounded
            /\ yielded' = Append(yielded, GenValue(waits_gen))
            /\ waits_gen' = GenAdvance(waits_gen)
            /\ UNCHANGED outcome
    /\ UNCHANGED <<op, stack, retval, exc, probeVars, installVars,
                   connectorVars, arg, data, msg, clientVars, registryVars>>

\* snapd.py:43-46  SnapdAPIClient.create_get_request(url)
CallCreateGetRequest ==
    /\ op = "create_get_request" /\ outcome = "running"
    /\ data' = CreateGetRequest(arg.url)
    /\ outcome' = "returned"
    /\ UNCHANGED <<op, stack, retval, exc, probeVars, installVars,
                   connectorVars, arg, waits_gen, yielded, msg, clientVars,
                   registryVars>>

\* snapd.py:62-75  SnapdAPIClient.parse_chunked_body(raw_body)
CallParseChunkedBody ==
    /\ op = "parse_chunked_body" /\ outcome = "running"
    /\ LET r == ParseChunkedBody(arg.raw) IN
         IF r.exc = "none"
         THEN /\ data' = r.body
              /\ outcome' = "returned"
              /\ UNCHANGED <<op, retval, exc>>
         ELSE /\ Raise(r.exc)
              /\ UNCHANGED data
    /\ UNCHANGED <<stack, probeVars, installVars, connectorVars, arg,
                   waits_gen, yielded, msg, clientVars, registryVars>>

\* snapd.py:48-60  SnapdAPIClient.parse_header(raw_header)
CallParseHeader ==
    /\ op = "parse_header" /\ outcome = "running"
    /\ LET r == ParseHeader(arg.raw_header) IN
         IF r.exc = "none"
         THEN /\ header' = r.header
              /\ outcome' = "returned"
              /\ UNCHANGED <<op, retval, exc>>
         ELSE /\ Raise(r.exc)
              /\ UNCHANGED header
    /\ UNCHANGED <<stack, probeVars, installVars, connectorVars, arg,
                   waits_gen, yielded, data, msg, cpc, request, response,
                   body, runs, getter, registryVars>>

\* snapd.py:105-114  SnapdAPIClient.parse_assertions(body)
CallParseAssertions ==
    /\ op = "parse_assertions" /\ outcome = "running"
    /\ LET r == ParseAssertions(arg.text) IN
         IF r.exc = "none"
         THEN /\ data' = r.docs
              /\ outcome' = "returned"
              /\ UNCHANGED <<op, retval, exc, msg>>
         ELSE /\ Raise(r.exc)
              /\ msg' = [kind |-> "assertions"]
              /\ UNCHANGED data
    /\ UNCHANGED <<stack, probeVars, installVars, connectorVars, arg,
                   waits_gen, yielded, clientVars, registryVars>>

\* snapd.py:116-127  get up to its first check: the request is built and
\* written to the socket through `nc`; an empty stdout raises
\* SnapdAPIError with stderr, or "No response" when stderr is empty too
GetRun ==
    /\ op = "get" /\ outcome = "running" /\ cpc = "request"
    /\ request' = CreateGetRequest(
                     CreateGetRequestUrl(arg.endpoint, arg.params))
    /\ response' = [stdout |-> arg.reply.stdout, stderr |-> arg.reply.stderr]
    /\ runs' = runs + 1
    /\ IF IsNoResponse(arg.reply.stdout)
       THEN /\ cpc' = "raised"
            /\ Raise("SnapdAPIError")
            /\ msg' = [kind |-> "no response",
                       text |-> IF arg.reply.stderr # <<>>
                                THEN arg.reply.stderr
                                ELSE <<"No", "SP", "response">>]
       ELSE /\ cpc' = "parse"
            /\ UNCHANGED <<op, outcome, retval, exc, msg>>
    /\ UNCHANGED <<stack, probeVars, installVars, connectorVars, arg,
                   waits_gen, yielded, data, header, body, getter,
                   registryVars>>

\* snapd.py:128  header, body = self.parse(response.stdout)
GetParse ==
    /\ op = "get" /\ outcome = "running" /\ cpc = "parse"
    /\ LET r == Parse(response.stdout) IN
         IF r.exc # "none"
         THEN /\ cpc' = "raised"
              /\ Raise(r.exc)
              /\ UNCHANGED <<header, body>>
         ELSE /\ cpc' = "dispatch"
              /\ header' = r.header
              /\ body' = r.body
              /\ UNCHANGED <<op, outcome, retval, exc>>
    /\ UNCHANGED <<stack, probeVars, installVars, connectorVars, arg,
                   waits_gen, yielded, data, msg, request, response, runs,
                   getter, registryVars>>

\* snapd.py:129-143  the status check and the choice by Content-Type
GetDispatch ==
    /\ op = "get" /\ outcome = "running" /\ cpc = "dispatch"
    /\ LET r == Dispatch(header, body) IN
         /\ msg' = r.msg
         /\ IF r.exc # "none"
            THEN /\ cpc' = "raised"
                 /\ Raise(r.exc)
                 /\ UNCHANGED data
            ELSE /\ cpc' = "returned"
                 /\ data' = r.data
                 /\ outcome' = "returned"
                 /\ UNCHANGED <<op, retval, exc>>
    /\ UNCHANGED <<stack, probeVars, installVars, connectorVars, arg,
                   waits_gen, yielded, request, response, header, body,
                   runs, getter, registryVars>>

\* snaps.py:47-62  get_active, get_changes, get_change: each calls get for
\* its endpoint and returns response["result"], `response` being the value
\* get returned (when get raised, the exception goes through the getter)
SnapGetter ==
    /\ op = "get" /\ outcome = "returned" /\ cpc = "returned"
    /\ cpc' = "unwrapped"
    /\ getter' = [called |-> TRUE] @@ GetterResult(header, data)
    /\ UNCHANGED <<op, outcome, retval, exc, stack, probeVars, installVars,
                   connectorVars, arg, waits_gen, yielded, data, msg,
                   request, response, header, body, runs, registryVars>>

\* registry.py:26-27,44-49  one turn of the loop of __init__
RegistryRegister ==
    /\ op = "registry" /\ outcome = "running" /\ rpc = "register"
    /\ Cardinality(DOMAIN registry) < Len(arg.interfaces)
    /\ LET r == Register(registry, arg.interfaces,
                         Cardinality(DOMAIN registry) + 1) IN
         IF r.exc # "none"
         THEN /\ rpc' = "raised"
              /\ Raise(r.exc)
              /\ msg' = r.msg
              /\ UNCHANGED registry
         ELSE /\ registry' = r.registry
              /\ UNCHANGED <<op, outcome, retval, exc, msg, rpc>>
    /\ UNCHANGED <<stack, probeVars, installVars, connectorVars, arg,
                   waits_gen, yielded, data, clientVars, found>>

\* registry.py:28,51-64  the end of __init__: _check_requirements
RegistryCheckRequirements ==
    /\ op = "registry" /\ outcome = "running" /\ rpc = "register"
    /\ Cardinality(DOMAIN registry) = Len(arg.interfaces)
    /\ LET r == CheckRequirements(registry, arg.interfaces) IN
         IF r.exc # "none"
         THEN /\ rpc' = "raised"
              /\ Raise(r.exc)
              /\ msg' = r.msg
         ELSE /\ rpc' = "constructed"
              /\ outcome' = "returned"
              /\ UNCHANGED <<op, retval, exc, msg>>
    /\ UNCHANGED <<stack, probeVars, installVars, connectorVars, arg,
                   waits_gen, yielded, data, clientVars, registry, found>>

\* registry.py:30-38  registry[interface_cls] on a constructed registry
CallRegistryGetItem ==
    /\ op = "registry_getitem" /\ outcome = "running"
    /\ LET r == RegistryGetItem(registry, arg.interface_cls) IN
         IF r.exc # "none"
         THEN /\ Raise(r.exc)
              /\ msg' = r.msg
              /\ UNCHANGED found
         ELSE /\ found' = r.found
              /\ outcome' = "returned"
              /\ UNCHANGED <<op, retval, exc, msg>>
    /\ UNCHANGED <<stack, probeVars, installVars, connectorVars, arg,
                   waits_gen, yielded, data, clientVars, registry, rpc>>

\* what a call of process leaves to its caller
Resolution(snap_connection_data, r) ==
    [data |-> snap_connection_data, exc |-> r.exc,
     connections |-> IF r.exc = "none" THEN r.connections ELSE {}]

\* connector.py:132-171  SnapConnector(predicates).process(data): process
\* reads self.predicates and writes nothing of the connector
CallProcess ==
    /\ op = "process" /\ outcome = "running"
    /\ LET r == Process(connector, arg.data) IN
         /\ resolved' = <<Resolution(arg.data, r)>>
         /\ IF r.exc = "none"
            THEN /\ data' = r
                 /\ outcome' = "returned"
                 /\ UNCHANGED <<op, retval, exc>>
            ELSE /\ Raise(r.exc)
                 /\ data' = r    \* the locals when the exception was raised
    /\ UNCHANGED connector
    /\ UNCHANGED <<stack, probeVars, installVars, arg, waits_gen, yielded,
                   msg, clientVars, registryVars>>

\* connector.py:141-171  further calls of process on the same connector,
\* whatever the first call ended with: in turn on another topology and on
\* the first one again
CallProcessAgain ==
    /\ op = "process" /\ outcome # "running"
    /\ Len(resolved) \in 1..(MaxCalls - 1)
    /\ LET snap_connection_data ==
             IF Len(resolved) % 2 = 1 THEN InBetween ELSE arg.data
           r == Process(connector, snap_connection_data)
       IN resolved' = Append(resolved, Resolution(snap_connection_data, r))
    /\ UNCHANGED <<op, outcome, retval, exc, stack, probeVars, installVars,
                   connector, arg, waits_gen, yielded, data, msg, clientVars,
                   registryVars>>

\* connector.py:116-129  Blacklist(blacklist).check(plug, slot)
CallBlacklistCheck ==
    /\ op = "blacklist_check" /\ outcome = "running"
    /\ data' = BlacklistCheck(arg.blacklist, arg.plug, arg.slot)
    /\ outcome' = "returned"
    /\ UNCHANGED <<op, retval, exc>>
    /\ UNCHANGED <<stack, probeVars, installVars, connectorVars, arg,
                   waits_gen, yielded, msg, clientVars, registryVars>>

\* connector.py:95-108  Blacklist.from_dict(blacklist_data)
CallFromDict ==
    /\ op = "from_dict" /\ outcome = "running"
    /\ LET r == FromDict(arg.blacklist_data) IN
         IF r.exc = "none"
         THEN /\ data' = r.blacklist
              /\ outcome' = "returned"
              /\ UNCHANGED <<op, retval, exc>>
         ELSE /\ Raise(r.exc)
              /\ UNCHANGED data
    /\ UNCHANGED <<stack, probeVars, installVars, connectorVars, arg,
                   waits_gen, yielded, msg, clientVars, registryVars>>

\* connector.py:33-68  MatchAttributes.check(plug, slot)
CallMatchAttributes ==
    /\ op = "match_attributes" /\ outcome = "running"
    /\ LET r == MatchAttributesCheck(arg.plug, arg.slot) IN
         IF r.exc = "none"
         THEN /\ data' = r
              /\ outcome' = "returned"
              /\ UNCHANGED <<op, retval, exc>>
         ELSE /\ Raise(r.exc)
              /\ UNCHANGED data
    /\ UNCHANGED <<stack, probeVars, installVars, connectorVars, arg,
                   waits_gen, yielded, msg, clientVars, registryVars>>

Next ==
    \/ ScriptGeneric
    \/ ScriptGetStatus
    \/ ProbePoll
    \/ ProbeMarker
    \/ ProbeReboot
    \/ ProbeStatusWait
    \/ RetryNext
    \/ RetrySleep
    \/ RetryReturn
    \/ InstallRun
    \/ InstallGetChange
    \/ WaitsNext
    \/ CallCreateGetRequest
    \/ CallParseChunkedBody
    \/ CallParseHeader
    \/ CallParseAssertions
    \/ GetRun
    \/ GetParse
    \/ GetDispatch
    \/ SnapGetter
    \/ RegistryRegister
    \/ RegistryCheckRequirements
    \/ CallRegistryGetItem
    \/ CallProcess
    \/ CallProcessAgain
    \/ CallBlacklistCheck
    \/ CallFromDict
    \/ CallMatchAttributes

Spec == Init /\ [][Next]_vars

\* the entry points of the core: retry and the operations built on it
CoreCalls == {"retry", "install", "wait_for_snap_changes", "wait_for_status"}

CoreInit == op \in CoreCalls /\ Init

CoreNext ==
    \/ ScriptGeneric
    \/ ScriptGetStatus
    \/ ProbePoll
    \/ ProbeMarker
    \/ ProbeReboot
    \/ ProbeStatusWait
    \/ RetryNext
    \/ RetrySleep
    \/ RetryReturn
    \/ InstallRun
    \/ InstallGetChange

\* The core runs on one thread and every remote command returns: while a
\* step is possible, one is taken.
FairSpec == CoreInit /\ [][CoreNext]_vars /\ WF_vars(CoreNext)

\* ================================================================ claims
\* The frame of the retry() call the entry point made.
Outer == stack[1]

\* What a policy is specified to yield, independently of the generator
\* steps above: its number of waits and its i-th wait.
PolicyBounded(p) == p.kind = "custom" \/ (p.kind = "linear" /\ p.bounded)
NWaits(p) ==
    IF p.kind = "custom" THEN Len(p.seq)
    ELSE IF p.times > 0 THEN p.times ELSE 0
NthWait(p, i) ==
    IF p.kind = "custom" THEN p.seq[i]
    ELSE IF p.kind = "none" THEN 0 ELSE p.delay
NonNegative(p) ==
    IF p.kind = "custom" THEN \A i \in 1..Len(p.seq) : p.seq[i] >= 0
    ELSE IF p.kind = "none" THEN TRUE ELSE p.delay >= 0

AllFalsy(cs) == \A i \in 1..Len(cs) : cs[i] \in FalsyValues
Finished == outcome # "running"

\* C5: retry with a policy yielding n (non-negative) waits and a probe that
\* is falsy on every call (it never raises) never makes more than n+1 calls, and when it ends
\* it has made exactly n+1 calls, it returns (no exception) and the value
\* it returns is that of the last call.
C5_ExhaustionReturnsLast ==
    (op = "retry" /\ PolicyBounded(Outer.policy) /\ NonNegative(Outer.policy)
        /\ AllFalsy(Outer.calls) /\ exc # "ProbeError")
    => /\ Len(Outer.calls) <= NWaits(Outer.policy) + 1
       /\ Finished =>
            /\ outcome = "returned"
            /\ Len(Outer.calls) = NWaits(Outer.policy) + 1
            /\ retval = Outer.calls[Len(Outer.calls)]
            /\ retval \in FalsyValues

\* C5 witness: a policy of two waits is exhausted by a probe that returned
\* three different falsy values; retry has returned.
C5_Witness ==
    /\ op = "retry" /\ outcome = "returned"
    /\ Outer.policy = Linear(TRUE, 2, 1)
    /\ Outer.calls = <<"None", "0", "''">>

\* C6: once the probe has returned a truthy value on call k (all earlier
\* calls falsy, k <= n+1), that call is the last one: retry made exactly k
\* calls, makes no further call or sleep, and returns the k-th value.
C6_FirstTruthyEnds ==
    op = "retry" =>
      \A k \in 1..Len(Outer.calls) :
        Outer.calls[k] \in TruthyValues =>
          /\ k = Len(Outer.calls)
          /\ AllFalsy(SubSeq(Outer.calls, 1, k - 1))
          /\ PolicyBounded(Outer.policy) => k <= NWaits(Outer.policy) + 1
          /\ Outer.pc \in {"done", "returned"}
          /\ Outer.result = Outer.calls[k]
          /\ Len(Outer.sleeps) = k - 1
          /\ outcome # "raised"
          /\ outcome = "returned" => retval = Outer.calls[k]

\* C6 witness: falsy values None and 0 on calls 1 and 2, "success" on call
\* 3 = n+1 under a policy of 2 waits, and retry has returned it.
C6_Witness ==
    /\ op = "retry" /\ outcome = "returned"
    /\ Outer.policy = Linear(TRUE, 2, 0)
    /\ Outer.calls = <<"None", "0", "success">>
    /\ retval = "success"

\* C7: in every retry frame the events alternate call, sleep, call, ...
\* starting with a call; a truthy first result means no sleep; the i-th
\* sleep is given the i-th duration of the policy; a run that returned
\* slept once less than it called; and the generator has yielded exactly
\* the durations slept (one more only while that one is about to be slept).
C7_SleepsBetweenCalls ==
    \A d \in 1..Len(stack) :
      LET f == stack[d] IN
        /\ \A j \in 1..Len(f.log) :
              f.log[j] = (IF j % 2 = 1 THEN "call" ELSE "sleep")
        /\ (Len(f.calls) >= 1 /\ f.calls[1] \in TruthyValues)
              => f.sleeps = <<>>
        /\ \A i \in 1..Len(f.sleeps) : f.sleeps[i] = NthWait(f.policy, i)
        /\ f.pc \in {"done", "returned"} => Len(f.sleeps) = Len(f.calls) - 1
        /\ f.consumed = Len(f.sleeps) + (IF f.pc = "sleep" THEN 1 ELSE 0)

\* C7 witness: a policy yielding 1, 0, 1 was consumed up to its second
\* duration by a probe that succeeded on its third call.
C7_Witness ==
    /\ op = "retry" /\ outcome = "returned"
    /\ Outer.policy = Custom(<<1, 0, 1>>)
    /\ Outer.sleeps = <<1, 0>>
    /\ Len(Outer.calls) = 3
    /\ Outer.consumed = 2

\* --------------------------------------------------------- change polling
Count(seq, x) == Cardinality({i \in 1..Len(seq) : seq[i] = x})
ProbeEnded == ppc \in {"idle", "raised"} /\ ev # <<>>
SomeNotReady(cs) == \E i \in 1..Len(cs) : ~cs[i].ready

\* C1: a probe whose first poll reported incomplete and that found the
\* reboot-required marker, and whose polls both answered, has by its end
\* polled, asked for the marker, rebooted once, waited once for the system
\* status with allowed = {degraded} and the caller's status policy, and
\* polled once more, in that order; it returned the second poll's result.
C1_RebootWaitRepoll ==
    (op = "wait_for_snap_changes" /\ ProbeEnded
        /\ firstPoll = "False" /\ marker = "True" /\ lastPoll # "raised")
    => /\ ev = <<"poll", "marker", "reboot", "status_wait", "poll">>
       /\ swArgs = [allowed |-> {"degraded"}, policy |-> status_policy]
       /\ ppc = "idle"
       /\ Outer.calls # <<>>
       /\ Outer.calls[Len(Outer.calls)] = lastPoll

\* C2: a probe reboots only after a first poll that found a not-ready
\* change and a marker query that found the marker, and at most once; a
\* first poll with every change ready (an empty list included) ends the
\* probe with True after that single poll, the marker not asked for; an
\* incomplete first poll without marker ends it with False after that
\* single poll, no reboot.
C2_RebootOnlyWhenRequired ==
    op = "wait_for_snap_changes" =>
      /\ Count(ev, "reboot") <= 1
      /\ (Count(ev, "reboot") = 1 \/ ppc \in {"reboot", "status_wait"})
           => /\ firstPoll = "False" /\ marker = "True"
              /\ SubSeq(ev, 1, 2) = <<"poll", "marker">>
              /\ Count(ev, "poll") = 1 => SomeNotReady(changes)
      /\ (Count(ev, "poll") = 1 /\ firstPoll # "raised")
           => (firstPoll = "True" <=> ~SomeNotReady(changes))
      /\ firstPoll = "True"
           => /\ ev = <<"poll">> /\ marker = "none" /\ ppc = "idle"
              /\ Outer.calls[Len(Outer.calls)] = "True"
      /\ (firstPoll = "False" /\ marker = "False")
           => /\ ev = <<"poll", "marker">> /\ ppc = "idle"
              /\ Outer.calls[Len(Outer.calls)] = "False"
      /\ reboots <= Count(Outer.log, "call")

\* C2 witness: the first poll found change 1 done and change 2 not ready,
\* the marker was present, and the probe has just rebooted.
C2_Witness ==
    /\ op = "wait_for_snap_changes"
    /\ changes = <<ChangeOf(1, "Done"), ChangeOf(2, "Doing")>>
    /\ ev = <<"poll", "marker", "reboot">>
    /\ reboots = 1

\* C3: under an outer policy of n waits the probe is invoked at most n+1
\* times (so at most n+1 reboots); a probe reporting complete is the last
\* one and wait_for_snap_changes returns its truthy result; and the call
\* returns a falsy result exactly when it ended with all n+1 probes
\* having reported incomplete.
C3_BoundedProbes ==
    (op = "wait_for_snap_changes" /\ PolicyBounded(Outer.policy)) =>
      LET n == NWaits(Outer.policy)
          probes == Count(Outer.log, "call")
      IN  /\ probes <= n + 1
          /\ reboots <= n + 1
          /\ \A k \in 1..Len(Outer.calls) :
                Outer.calls[k] = "True"
                  => /\ k = Len(Outer.calls) /\ k = probes
                     /\ Outer.pc \in {"done", "returned"}
                     /\ outcome # "raised"
                     /\ outcome = "returned" => retval = "True"
          /\ (outcome = "returned" /\ retval \in FalsyValues)
                <=> (Finished /\ Len(Outer.calls) = n + 1
                       /\ \A k \in 1..(n + 1) : Outer.calls[k] = "False")

\* C3 witness: under a policy of 2 waits three probes reported incomplete
\* and wait_for_snap_changes returned False.
C3_Witness ==
    /\ op = "wait_for_snap_changes"
    /\ Outer.policy = Linear(TRUE, 2, 1)
    /\ outcome = "returned" /\ retval = "False"
    /\ Outer.calls = <<"False", "False", "False">>
    /\ polls = 3

\* C4: with a bounded outer policy and a bounded status policy every run of
\* wait_for_snap_changes ends (it returns or an exception leaves it),
\* whatever the device answers.
C4_Terminates ==
    (op = "wait_for_snap_changes" /\ PolicyBounded(Outer.policy)
        /\ PolicyBounded(status_policy))
    => <>Finished

\* C4 witness: bounded policies, two incomplete probes, and the run ended.
C4_Witness ==
    /\ op = "wait_for_snap_changes"
    /\ Outer.policy = Linear(TRUE, 1, 1)
    /\ status_policy = Linear(TRUE, 1, 0)
    /\ Finished
    /\ Len(Outer.calls) = 2
    /\ polls = 2

\* ----------------------------------------------------------------- install
InstallOutcome ==
    IF outcome = "returned" THEN "success"
    ELSE IF exc = "SnapNotFoundError" THEN "not-found"
    ELSE IF exc \in {"SnapInstallError: stderr", "SnapInstallError: incomplete"}
         THEN "install-failed"
    ELSE IF exc = "SnapInstallError: timed-out" THEN "timed-out"
    ELSE "other"

\* C8: when the command succeeds and prints no change id, install has
\* returned (success) with its next step: no wait_for_snap_changes, no
\* poll, no change lookup, no reboot.
C8_NoChangeIdIsSuccess ==
    (op = "install" /\ ipc # "start" /\ cmd.exited = 0 /\ cmd.change_id = 0)
    => /\ outcome = "returned"
       /\ stack = <<>>
       /\ polls = 0 /\ lookups = 0 /\ reboots = 0

\* C8 witness: install returned on a command that printed no change id.
C8_Witness ==
    /\ op = "install" /\ ipc = "returned"
    /\ cmd = [exited |-> 0, change_id |-> 0, not_found |-> FALSE]

\* C9: every run of install in which the daemon answered the queries ends
\* in exactly one of success, not-found, install-failed, timed-out:
\* not-found iff the command failed reporting not found; install-failed iff
\* the command failed otherwise or the wait succeeded and the change's
\* status is not "Done"; timed-out iff the wait was exhausted; success only
\* with no change id or a "Done" change after a successful wait.
C9_OneOutcome ==
    (op = "install" /\ Finished /\ exc # "SnapdAPIError") =>
      LET waited == cmd.exited = 0 /\ cmd.change_id # 0 IN
        /\ InstallOutcome
             \in {"success", "not-found", "install-failed", "timed-out"}
        /\ InstallOutcome = "not-found" <=> (cmd.exited # 0 /\ cmd.not_found)
        /\ InstallOutcome = "install-failed"
             <=> \/ cmd.exited # 0 /\ ~cmd.not_found
                 \/ waited /\ wait_result = "True" /\ snap_change # "Done"
        /\ InstallOutcome = "timed-out" <=> (waited /\ wait_result = "False")
        /\ InstallOutcome = "success"
             => \/ cmd.exited = 0 /\ cmd.change_id = 0
                \/ waited /\ wait_result = "True" /\ snap_change = "Done"

\* C10: every duration a policy yields to retry's loop is non-negative, so
\* sleep is never given a negative duration.
C10_NonNegativeWaits ==
    \A d \in 1..Len(stack) :
      /\ stack[d].pc = "sleep" => stack[d].wait >= 0
      /\ \A i \in 1..Len(stack[d].sleeps) : stack[d].sleeps[i] >= 0
\* ------------------------------------------------------------ Linear.waits
\* C11: Linear(times=n, delay=d).waits() yields exactly n values (n a count,
\* n >= 0), each equal to d; with times=None the generator never ends and
\* every value equals d; a Linear built without `delay` yields 0.
C11_LinearWaits ==
    op = "waits" =>
      /\ \A i \in 1..Len(yielded) :
            yielded[i] = (IF arg.hasDelay THEN arg.delay ELSE 0)
      /\ (arg.hasTimes /\ arg.times >= 0) =>
            /\ Len(yielded) <= arg.times
            /\ outcome = "returned" => Len(yielded) = arg.times
      /\ ~arg.hasTimes => outcome = "running"

\* C11 witness: Linear(times=2, delay=1) was drained and gave <<1, 1>>.
C11_Witness ==
    /\ op = "waits"
    /\ arg.hasTimes /\ arg.times = 2
    /\ arg.hasDelay /\ arg.delay = 1
    /\ outcome = "returned"
    /\ yielded = <<1, 1>>


\* ------------------------------------------------------ the protocol client
\* the lines of a text, each ended by CR LF
RECURSIVE CRLFLines(_)
CRLFLines(lines) ==
    IF lines = <<>> THEN <<>>
    ELSE Head(lines) \o <<"CR", "LF">> \o CRLFLines(Tail(lines))

\* C19: create_get_request(url) returns the lines `<url> HTTP/1.1`,
\* `Host: snapd.socket`, `Connection: close` and a blank line, every line
\* ended by CR LF.
C19_RequestLinesCRLF ==
    (op = "create_get_request" /\ outcome = "returned") =>
        data = CRLFLines(<<arg.url \o <<"SP", "HTTP/1.1">>,
                           <<"Host", ":", "SP", "snapd.socket">>,
                           <<"Connection", ":", "SP", "close">>,
                           <<>>>>)


\* C16: parse_chunked_body on a truncated or malformed chunk stream (empty
\* input, no zero-size terminator, a size line that is not hexadecimal, a
\* payload shorter than declared) fails with SnapdAPIError.
C16_MalformedChunksProtocolError ==
    (op = "parse_chunked_body" /\ arg.kind # "well-formed"
        /\ outcome # "running")
    => (outcome = "raised" /\ exc = "SnapdAPIError")

\* C17: parse_chunked_body on a well-formed chunk stream returns the
\* payloads joined in order, every character kept, whether the lines end in
\* LF or in CR LF.
C17_ChunksDecoded ==
    (op = "parse_chunked_body" /\ arg.kind = "well-formed"
        /\ outcome # "running")
    => (outcome = "returned" /\ data = Join(<<>>, arg.chunks))

\* C17 witness: the CR LF stream of "hello" and " world" decoded to
\* "hello world".
C17_Witness ==
    /\ op = "parse_chunked_body"
    /\ arg.chunks = << <<"h", "e", "l", "l", "o">>,
                       <<"SP", "w", "o", "r", "l", "d">> >>
    /\ arg.raw = EncodeChunks(arg.chunks, <<"CR", "LF">>)
    /\ outcome = "returned"
    /\ data = <<"h", "e", "l", "l", "o", "SP", "w", "o", "r", "l", "d">>


\* C18: parse_assertions splits the body on blank lines and parses each
\* segment on its own, dropping only a trailing empty segment: the
\* documents returned are those of the non-empty segments, one each, in
\* order, the last segment included when the body does not end in a blank
\* line.
C18_EverySegmentParsed ==
    (op = "parse_assertions" /\ arg.ending # "invalid"
        /\ outcome # "running")
    => /\ outcome = "returned"
       /\ SelectSeq(data, LAMBDA doc : doc.kind # "none")
            = [i \in 1..Len(arg.segments) |-> Mapping(arg.segments[i])]


\* the reply of the daemon get was called with
Reply == arg.reply

\* get ended, one way or the other
GetEnded == op = "get" /\ outcome # "running"

\* the reply can be taken apart: it has its blank line, its status line
\* has a status code, and a chunked body has its zero-size chunk
Parses ==
    /\ Reply.kind = "text" /\ Reply.complete
    /\ Reply.status.code # <<>>
    /\ Reply.transfer # "chunked, truncated"

Supported(ctype) ==
    /\ ctype.present
    /\ ctype.value \in {<<"application/json">>,
                        <<"application/x.ubuntu.assertion">>}

\* C12: whatever the executor returns, get returns data or raises
\* SnapdAPIError; no exception of another type leaves it (not on a reply
\* without blank line, with a malformed status line, with a malformed chunk
\* stream or with a JSON object lacking `result`), and data is returned
\* only for a 200 reply of a supported content type.
C12_OnlyProtocolErrors ==
    GetEnded =>
      /\ outcome = "raised" => exc = "SnapdAPIError"
      /\ outcome = "returned" =>
            (Parses /\ Reply.status.code = <<"200">>
                /\ Supported(Reply.ctype))

\* get raised SnapdAPIError for the status of the reply, naming its code
\* and its reason when it has one, and returned nothing
StatusErrorRaised ==
    /\ outcome = "raised" /\ exc = "SnapdAPIError"
    /\ msg.kind = "status"
    /\ msg.code = Reply.status.code
    /\ Reply.status.reason # <<>> =>
          (msg.has_reason /\ msg.reason = Reply.status.reason)
    /\ Reply.status.reason = <<>> => ~msg.has_reason
    /\ data = <<>>

NotOk == Reply.kind = "text" /\ Reply.status.code \notin {<<>>, <<"200">>}

\* C13: on a reply whose status code is not 200, get raises SnapdAPIError
\* naming the code and, when present, the reason, whatever the
\* Content-Type and the body are; the body is never interpreted and no
\* data is returned.
C13_NotOkWhateverBody ==
    (GetEnded /\ NotOk /\ Reply.complete) => StatusErrorRaised

\* C14: on a 200 reply whose Content-Type is neither JSON nor assertion, or
\* is absent, get raises SnapdAPIError naming that content type and returns
\* nothing; no reply at all is reported before anything else, a status
\* other than 200 before the content type, and the three errors differ.
C14_UnsupportedContentType ==
    GetEnded =>
      /\ Reply.kind = "empty" =>
            (outcome = "raised" /\ exc = "SnapdAPIError"
                /\ msg.kind = "no response" /\ data = <<>>)
      /\ (Parses /\ ~Supported(Reply.ctype)) =>
            /\ outcome = "raised" /\ exc = "SnapdAPIError" /\ data = <<>>
            /\ Reply.status.code # <<"200">> => msg.kind = "status"
            /\ Reply.status.code = <<"200">> =>
                  /\ msg.kind = "content type"
                  /\ msg.names = (IF Reply.ctype.present
                                  THEN Reply.ctype.value ELSE <<"None">>)

\* C14 witness: a 200 reply of content type text/plain ended in the
\* content-type error.
C14_Witness ==
    /\ GetEnded /\ Parses
    /\ Reply.status.code = <<"200">>
    /\ Reply.ctype.value = <<"text/plain">>
    /\ outcome = "raised" /\ exc = "SnapdAPIError"
    /\ msg.kind = "content type"
    /\ msg.names = <<"text/plain">>

\* the object has a member `result`
HasResult(object) == \E i \in 1..Len(object) : object[i].key = "result"

\* the value of the member `result` of the object
ResultOf(object) ==
    object[CHOOSE i \in 1..Len(object) : object[i].key = "result"].value

\* C15: on a 200 reply of content type application/json get returns the
\* value of the top-level `result` member of the JSON object the body
\* carries, chunk-decoded first when the reply is chunked; a body with no
\* JSON object or with invalid JSON raises SnapdAPIError.
C15_JsonResult ==
    (GetEnded /\ Parses /\ Reply.status.code = <<"200">>
        /\ Reply.ctype = [present |-> TRUE, value |-> <<"application/json">>])
    => /\ (Reply.content.kind = "json" /\ HasResult(Reply.content.object))
            => (outcome = "returned"
                  /\ data = ResultOf(Reply.content.object))
       /\ Reply.content.kind # "json"
            => (outcome = "raised" /\ exc = "SnapdAPIError"
                  /\ msg.kind \in {"json extract", "json parse"})

\* C15 witness: a chunked 200 reply whose body has text before the object
\* returned the list that is the object's `result`.
C15_Witness ==
    /\ GetEnded /\ Parses
    /\ Reply.status.code = <<"200">>
    /\ Reply.ctype.value = <<"application/json">>
    /\ Reply.transfer = "chunked"
    /\ Reply.content.kind = "json"
    /\ Len(Reply.content.object) = 3
    /\ Head(Reply.content.text) = "Some"
    /\ outcome = "returned"
    /\ data = <<"[", "{", "'id'", ":", "'1'", "}", "]">>


\* ------------------------------------------------------------ the registry
\* the classes of the interfaces the registry holds
Held == {arg.interfaces[registry[n]] : n \in DOMAIN registry}

\* the orders the interfaces of s can be passed in
Reorderings(s) ==
    {[i \in 1..Len(s) |-> s[p[i]]] : p \in Permutations(1..Len(s))}

\* C20: a constructed registry holds every class required by one of its
\* members; whether construction succeeds is the same for every order of
\* the interfaces; two interfaces that require each other are accepted
\* when both are there.
C20_RequirementsHeld ==
    (op = "registry" /\ outcome # "running") =>
      /\ outcome = "returned" =>
            \A c \in Held : ClassOf(c).requires \subseteq Held
      /\ \A s \in Reorderings(arg.interfaces) :
            (Construct(s).exc = "none") = (outcome = "returned")
      /\ {arg.interfaces[i] : i \in 1..Len(arg.interfaces)}
            = {"InterfaceP", "InterfaceQ"}
         /\ Len(arg.interfaces) = 2
         => outcome = "returned"


\* the classes of which the registry is handed two instances or more
Duplicated ==
    {c \in ClassIds :
       \E i, j \in 1..Len(arg.interfaces) :
          i < j /\ arg.interfaces[i] = c /\ arg.interfaces[j] = c}

\* C21: construction from a sequence that holds two instances of one class
\* raises DeviceInterfaceError naming a class that is there twice as the
\* duplicate, wherever the two are and whatever else is there; the registry
\* never holds two instances of one class.
C21_DuplicateRejected ==
    op = "registry" =>
      /\ \A n, k \in DOMAIN registry :
            arg.interfaces[registry[n]] = arg.interfaces[registry[k]] => n = k
      /\ (outcome # "running" /\ Duplicated # {}) =>
            /\ outcome = "raised"
            /\ exc = "DeviceInterfaceError"
            /\ msg.kind = "duplicate"
            /\ \E c \in Duplicated : msg.names = {ClassName(c)}


\* the classes the registry is constructed from, and the classes they
\* require that are not among them
Present == {arg.interfaces[i] : i \in 1..Len(arg.interfaces)}

Absent == UNION {ClassOf(c).requires : c \in Present} \ Present

\* C22: when a required class is absent (and no class is there twice),
\* construction raises DeviceInterfaceError and the message lists the
\* classes required by the present interfaces less the present classes:
\* each absent class once, in sorted order, and no present class.
C22_MissingListed ==
    (op = "registry" /\ outcome # "running" /\ Duplicated = {}
       /\ Absent # {}) =>
      /\ outcome = "raised"
      /\ exc = "DeviceInterfaceError"
      /\ msg.kind = "missing"
      /\ msg.names = Sorted({ClassName(c) : c \in Absent})


\* C23: the registry is keyed by the class: interfaces of pairwise distinct
\* classes are registered together without a duplicate error; registry[T]
\* returns the registered interface whose class is T, and raises the
\* not-registered DeviceInterfaceError exactly when no interface of class T
\* was registered.
C23_KeyedByClass ==
    /\ (op = "registry" /\ outcome # "running" /\ Duplicated = {}) =>
          ~(outcome = "raised" /\ msg.kind = "duplicate")
    /\ (op = "registry_getitem" /\ outcome # "running") =>
          IF arg.interface_cls \in Present
          THEN /\ outcome = "returned"
               /\ found \in 1..Len(arg.interfaces)
               /\ arg.interfaces[found] = arg.interface_cls
          ELSE /\ outcome = "raised"
               /\ exc = "DeviceInterfaceError"
               /\ msg = [kind |-> "not registered",
                         names |-> {ClassName(arg.interface_cls)}]


\* ---------------------------------------------------------- the connector
\* the topology process was called with, and the predicates of the
\* connector: the defaults and the caller's
TopologyPlugs == arg.data.plugs

TopologySlots == arg.data.slots

Configured == SnapConnectorPredicates(arg.predicates)

\* a plug that carries no connection: no `connections` list, or an empty one
Unconnected(plug) ==
    "connections" \notin DOMAIN plug \/ plug.connections = <<>>

\* every configured predicate accepts the pair
Accepted(plug, slot) ==
    \A k \in 1..Len(Configured) : Check(Configured[k], plug, slot).result

\* the pairs of the topology that are to become candidates
Candidates ==
    {FromDicts(TopologyPlugs[ij[1]], TopologySlots[ij[2]]) :
       ij \in {x \in (1..Len(TopologyPlugs)) \X (1..Len(TopologySlots)) :
                 /\ Unconnected(TopologyPlugs[x[1]])
                 /\ TopologyPlugs[x[1]].interface
                      = TopologySlots[x[2]].interface
                 /\ Accepted(TopologyPlugs[x[1]], TopologySlots[x[2]])}}

\* C24: process returns as candidates exactly the pairs (plug, slot) of the
\* topology whose plug carries no connection, whose interfaces are equal
\* and which every configured predicate accepts; a plug accepted against
\* several slots gives one candidate for each.
C24_CandidatesExact ==
    (op = "process" /\ outcome # "running") =>
      /\ outcome = "returned"
      /\ data.connections = Candidates


\* the pairs process visited
Visited == {data.pairs[n] : n \in 1..Len(data.pairs)}

\* C25: a plug is left out of resolution if and only if it carries a
\* non-empty `connections` list: every plug without the list or with an
\* empty one is visited with every slot of its interface, whatever
\* connections the slot has itself, and no other plug is visited.
C25_ExcludedIffConnected ==
    (op = "process" /\ outcome # "running") =>
      \A i \in 1..Len(TopologyPlugs), j \in 1..Len(TopologySlots) :
         TopologyPlugs[i].interface = TopologySlots[j].interface =>
            (([plug |-> TopologyPlugs[i], slot |-> TopologySlots[j]]
                \in Visited)
             <=> Unconnected(TopologyPlugs[i]))

\* the non-empty messages of the checks of every predicate on every visited
\* pair, in the order the checks are made
RECURSIVE CheckMessages(_, _)
CheckMessages(n, k) ==
    IF n > Len(data.pairs) THEN <<>>
    ELSE IF k > Len(Configured) THEN CheckMessages(n + 1, 1)
    ELSE LET message == Check(Configured[k], data.pairs[n].plug,
                              data.pairs[n].slot).message
         IN (IF MessageBool(message) THEN <<message>> ELSE <<>>)
            \o CheckMessages(n, k + 1)

\* C26: process checks every configured predicate on every pair it visits,
\* and the messages it returns are the non-empty messages of all those
\* checks (none when no pair is visited or no check gives a message).
C26_AllMessagesReturned ==
    (op = "process" /\ outcome # "running") =>
      /\ \A n \in 1..Len(data.pairs) : Len(data.checks[n]) = Len(Configured)
      /\ outcome = "returned"
      /\ data.messages = CheckMessages(1, 1)

\* C27: every candidate process returns joins two different snaps, for
\* every topology and every list of caller predicates.
C27_DifferentSnaps ==
    (op = "process" /\ outcome = "returned") =>
      \A c \in data.connections : c.plug_snap # c.slot_snap

\* a run with a predicate of the caller's that returned a candidate and
\* visited a pair within one snap that every predicate but the
\* different-snaps one accepts
C27_Witness ==
    /\ op = "process" /\ outcome = "returned"
    /\ arg.predicates # <<>>
    /\ data.connections # {}
    /\ \E p \in Visited :
          /\ p.plug.snap = p.slot.snap
          /\ \A k \in 1..Len(Configured) :
                Configured[k].kind # "DifferentSnaps"
                   => Check(Configured[k], p.plug, p.slot).result


\* the fields of a blacklist entry, and the values of the pair they are
\* matched with
EntryFields == {"plug_snap", "plug_name", "slot_snap", "slot_name"}

PairFields(plug, slot) ==
    [plug_snap |-> plug.snap, plug_name |-> plug.plug,
     slot_snap |-> slot.snap, slot_name |-> slot.slot]

\* the entry matches the pair on every field that is not a wildcard
MatchesOnGiven(entry, plug, slot) ==
    \A f \in EntryFields :
       entry[f] # None => entry[f] = PairFields(plug, slot)[f]

\* C28: Blacklist.check rejects a pair if and only if an entry matches it on
\* all the entry's fields that are not null; an entry of four nulls rejects
\* every pair, an empty blacklist none, and a rejection carries a message.
C28_BlacklistRejects ==
    (op = "blacklist_check" /\ outcome # "running") =>
      /\ outcome = "returned"
      /\ ~data.result <=>
            \E i \in 1..Len(arg.blacklist) :
               MatchesOnGiven(arg.blacklist[i], arg.plug, arg.slot)
      /\ (\E i \in 1..Len(arg.blacklist) :
             \A f \in EntryFields : arg.blacklist[i][f] = None)
            => ~data.result
      /\ arg.blacklist = <<>> => data.result
      /\ ~data.result => MessageBool(data.message)

\* a pair rejected by the second of two entries, which has wildcards and
\* names, the first entry naming another plug
C28_Witness ==
    /\ op = "blacklist_check" /\ outcome = "returned"
    /\ Len(arg.blacklist) = 2
    /\ ~MatchesOnGiven(arg.blacklist[1], arg.plug, arg.slot)
    /\ arg.blacklist[2].plug_snap = None
    /\ arg.blacklist[2].slot_name # None
    /\ ~data.result
    /\ data.message
         = Message(<<"Connection '", arg.plug.snap, ":", arg.plug.plug, "/",
                     arg.slot.snap, ":", arg.slot.slot, "' is blacklisted">>)

\* an entry of a blacklist document that is not a 4-field entry
Malformed(entry) == DOMAIN entry # EntryFields

\* the entries of the document's items, and whether an item lacks `match`
DocumentItems == arg.blacklist_data.items

LacksMatch ==
    \E i \in 1..Len(DocumentItems) : "match" \notin DOMAIN DocumentItems[i]

HasMalformed ==
    \E i \in 1..Len(DocumentItems) :
       /\ "match" \in DOMAIN DocumentItems[i]
       /\ \E k \in 1..Len(DocumentItems[i].match) :
             Malformed(DocumentItems[i].match[k])

\* C29: loading a blacklist document fails when an entry is not a 4-field
\* entry (a key missing or misspelled) or an item lacks its `match` list;
\* no blacklist is made with an entry of a malformed one.
C29_MalformedFailsAtLoad ==
    (op = "from_dict" /\ outcome # "running" /\ (HasMalformed \/ LacksMatch))
       => outcome = "raised"

\* the attributes of the plug and slot MatchAttributes.check is called with
\* (none when `attrs` is absent)
AttrsOf(dict) == IF "attrs" \in DOMAIN dict THEN dict.attrs ELSE <<>>

SameInterface == arg.plug.interface = arg.slot.interface

BothAttrs == "attrs" \in DOMAIN arg.plug /\ "attrs" \in DOMAIN arg.slot

CommonKeys(plug, slot) == DOMAIN AttrsOf(plug) \cap DOMAIN AttrsOf(slot)

\* C30: for a plug and a slot of one interface, MatchAttributes.check accepts
\* when `attrs` is absent on either side, else accepts if and only if every
\* key on both sides has equal values; the keys on one side only do not
\* change the verdict: every other pair with the same common keys and
\* values gets the same one.
C30_CommonAttributesDecide ==
    (op = "match_attributes" /\ outcome # "running" /\ SameInterface) =>
      /\ outcome = "returned"
      /\ ~BothAttrs => data.result
      /\ BothAttrs =>
            /\ data.result
                 <=> \A a \in CommonKeys(arg.plug, arg.slot) :
                        arg.plug.attrs[a] = arg.slot.attrs[a]
            /\ \A x \in AttributeChecks :
                  (/\ x.plug.interface = x.slot.interface
                   /\ "attrs" \in DOMAIN x.plug /\ "attrs" \in DOMAIN x.slot
                   /\ CommonKeys(x.plug, x.slot)
                        = CommonKeys(arg.plug, arg.slot)
                   /\ \A a \in CommonKeys(x.plug, x.slot) :
                         /\ x.plug.attrs[a] = arg.plug.attrs[a]
                         /\ x.slot.attrs[a] = arg.slot.attrs[a])
                  => MatchAttributesCheck(x.plug, x.slot).result = data.result

\* a pair accepted with an equal common key and a key on one side only
C30_Witness ==
    /\ op = "match_attributes" /\ outcome = "returned"
    /\ SameInterface /\ BothAttrs
    /\ CommonKeys(arg.plug, arg.slot) = {"content"}
    /\ DOMAIN arg.plug.attrs = {"content", "extra"}
    /\ data.result


\* the calls of process made with the topology of the first call
SameTopology == {n \in 1..Len(resolved) : resolved[n].data = arg.data}

\* what process gives for the topology with the plugs, the slots or the
\* connector's predicates in another order
Reordered ==
    {Resolution(arg.data,
                Process(connector, [arg.data EXCEPT !.plugs = plugs])) :
       plugs \in Reorderings(TopologyPlugs)}
    \cup {Resolution(arg.data,
                     Process(connector, [arg.data EXCEPT !.slots = slots])) :
            slots \in Reorderings(TopologySlots)}
    \cup {Resolution(arg.data, Process(predicates, arg.data)) :
            predicates \in Reorderings(connector)}

\* C31: the candidates process returns depend on the content of the
\* topology and on the set of predicates only: every call on one connector
\* with the same topology ends the same way with the same set, whatever
\* was resolved in between, and so does a call with the plugs, the slots
\* or the predicates in another order.
C31_SameTopologySameSet ==
    (op = "process" /\ outcome # "running") =>
      /\ connector = SnapConnectorPredicates(arg.predicates)
      /\ \A n \in SameTopology : resolved[n] = resolved[1]
      /\ Len(resolved) = 1 => Reordered = {resolved[1]}

\* the topology was resolved a second time after another one, it has two
\* plugs and two slots that are not all the same, and a candidate
C31_Witness ==
    /\ op = "process" /\ outcome = "returned"
    /\ Len(resolved) = 3
    /\ resolved[2].data # arg.data /\ resolved[2].connections # {}
    /\ resolved[3].data = arg.data /\ resolved[3].connections # {}
    /\ resolved[3].connections # resolved[2].connections
    /\ Len(TopologyPlugs) = 2 /\ TopologyPlugs[1] # TopologyPlugs[2]
    /\ Len(TopologySlots) = 2 /\ TopologySlots[1] # TopologySlots[2]
    /\ arg.predicates # <<>>


\* ------------------------------------------- polling through transport errors
\* C32: a poll whose fetch of the changes failed with SnapdAPIError does not
\* raise: the probe reports a failing result to retry, which keeps polling
\* per its policy, so no run of wait_for_snap_changes ends with that error.
C32_ApiErrorIsFailingResult ==
    (op = "wait_for_snap_changes" /\ lastPoll = "raised")
    => /\ exc # "SnapdAPIError"
       /\ outcome # "raised"
       /\ Outer.calls # <<>>
       /\ Outer.calls[Len(Outer.calls)] = "False"


\* ------------------------------------------------------ install's timed-out
\* the change install reports on is ready (its status is no longer Doing)
ReportedReady == ChangeOf(cmd.change_id, snap_change).ready

\* C33: whenever install reports timed-out, the change whose id and summary
\* it reports is not ready: timed-out is never reported with the summary of
\* a change that is already ready.
C33_TimedOutChangeNotReady ==
    (op = "install" /\ exc = "SnapInstallError: timed-out") => ~ReportedReady


\* ------------------------------------------------------- after the reboot
Rebooted == Count(ev, "reboot") = 1

\* C34: a probe that rebooted has, by its end, waited for the system status
\* and polled the changes exactly once more, whether that wait passed or was
\* exhausted; when the second poll answered, the probe returned that poll's
\* result, whatever the wait returned.
C34_RepollWhateverTheWait ==
    (op = "wait_for_snap_changes" /\ ProbeEnded /\ Rebooted)
    => /\ swResult \in {"True", "False"}
       /\ Count(ev, "poll") = 2
       /\ lastPoll # "raised"
            => /\ ppc = "idle"
               /\ Outer.calls # <<>>
               /\ Outer.calls[Len(Outer.calls)] = lastPoll

\* the status policy never runs out of waits (Linear(delay=d), or none given)
Unbounded(p) == ~EffectivePolicy(p).bounded /\ EffectivePolicy(p).kind = "linear"

\* C35: under an unbounded status policy a probe that rebooted ends only
\* once the system status was seen in the allowed set: it never gives up
\* the status wait, however few probes the outer policy allows, and after
\* a passing status it polls again and returns.
C35_ReturnsIffStatusAllowed ==
    (op = "wait_for_snap_changes" /\ Unbounded(status_policy)
        /\ ProbeEnded /\ Rebooted)
    => /\ swResult = "True"
       /\ lastPoll # "raised" => ppc = "idle"


\* ------------------------------------------------------ exceptions in retry
\* the exceptions a probe call raises (retries.py:44,56): the caller's
\* probe, the poll of the changes, the probe's status wait
ProbeErrors == {"ProbeError", "SnapdAPIError", "AttributeError"}

\* C36: when a probe call has raised, retry has ended with that exception
\* at once: the raising call is the last event of the frame, it reported no
\* result, every earlier call was followed by one sleep, nothing is
\* returned, and no policy value was taken after it, whatever remains of
\* the policy.
C36_ExceptionsPropagate ==
    (op \in CoreCalls /\ exc \in ProbeErrors)
    => /\ outcome = "raised" /\ retval = "None"
       /\ Top.pc = "raised"
       /\ Top.log # <<>> /\ Top.log[Len(Top.log)] = "call"
       /\ Count(Top.log, "call") = Len(Top.calls) + 1
       /\ Count(Top.log, "sleep") = Len(Top.calls)
       /\ Top.consumed = Len(Top.calls)
       /\ AllFalsy(Top.calls)

\* C36 witness: under a policy of two waits the caller's probe returned a
\* falsy value, retry slept once, and the second call raised with one wait
\* of the policy left.
C36_Witness ==
    /\ op = "retry" /\ outcome = "raised" /\ exc = "ProbeError"
    /\ Outer.policy = Linear(TRUE, 2, 1)
    /\ Outer.log = <<"call", "sleep", "call">>
    /\ Outer.calls = <<"None">>
    /\ ~GenExhausted(Outer.gen)


\* --------------------------------------------------------- status commands
\* the results get_status gave, in order
StatusResults == [i \in 1..Len(status_runs) |-> status_runs[i].result]

Failing(r) == ~r.ok

\* C37: get_status never raises: an execution error or an empty output gives
\* a failing result without message, and `running` passes whatever the
\* allowed set; wait_for_status runs one status command per get_status call,
\* at most n+1 under a policy of n waits, and returns the first passing
\* result, or the last failing one once the n+1 results all failed.
C37_StatusNeverRaises ==
    op = "wait_for_status" =>
      LET n == NWaits(Outer.policy)
          k == Len(status_runs)
      IN  /\ outcome # "raised" /\ exc = "none"
          /\ \A i \in 1..k :
               /\ status_runs[i].run \in {ExecutionFailed, ""}
                    => status_runs[i].result = [ok |-> FALSE, message |-> None]
               /\ status_runs[i].run = "running" => status_runs[i].result.ok
          /\ k = Count(Outer.log, "call")
          /\ [i \in 1..k |-> PyBool(StatusResults[i].ok)] = Outer.calls
          /\ PolicyBounded(Outer.policy) => k <= n + 1
          /\ \A i \in 1..(k - 1) : Failing(StatusResults[i])
          /\ outcome = "returned"
               => /\ k >= 1 /\ retval = PyBool(StatusResults[k].ok)
                  /\ Failing(StatusResults[k])
                       => PolicyBounded(Outer.policy) /\ k = n + 1

\* C37 witness: under a policy of one wait the first status command failed
\* to execute and the second printed nothing; wait_for_status returned the
\* second, failing result after those two commands.
C37_Witness ==
    /\ op = "wait_for_status" /\ outcome = "returned" /\ retval = "False"
    /\ Outer.policy = Linear(TRUE, 1, 0)
    /\ Len(status_runs) = 2
    /\ status_runs[1].run = ExecutionFailed
    /\ status_runs[2].run = ""


\* ------------------------------------------------------ the getters of snaps
\* C38: the getter of SnapInterface returns exactly the value get produced
\* for its endpoint: the `result` member of the reply is taken once, by get,
\* and the getter hands that value on unchanged.
C38_ResultUnwrappedOnce ==
    (op = "get" /\ getter.called)
    => /\ getter.exc = "none"
       /\ getter.value = data


\* ------------------------------------------------------- one run per get
\* C39: a call of get runs the device's command exactly once, whether it
\* returns or raises at any of its steps (it never runs it again); and when
\* the command printed nothing, get raises the no-response error, carrying
\* the command's stderr when there is one, with nothing parsed.
C39_OneRunPerGet ==
    op = "get" =>
      /\ runs = (IF cpc = "request" THEN 0 ELSE 1)
      /\ (runs = 1 /\ response.stdout = <<>>)
           => /\ outcome = "raised" /\ exc = "SnapdAPIError"
              /\ msg.kind = "no response"
              /\ msg.text = (IF response.stderr # <<>> THEN response.stderr
                             ELSE <<"No", "SP", "response">>)
              /\ header = NoHeader /\ body = <<>> /\ data = <<>>

\* C39 witness: the command printed nothing on stdout and `Connection
\* failed` on stderr; get raised after that one run.
C39_Witness ==
    /\ op = "get" /\ runs = 1 /\ outcome = "raised"
    /\ response.stdout = <<>>
    /\ response.stderr = <<"Connection", "SP", "failed">>
    /\ msg.kind = "no response"


\* ------------------------------------------------------------ header lines
\* a line cut once, at its first `: `
SplitOnce(line) == Split("field", Strip(line), 1)

\* the lines that name a field: those that hold `: `
FieldsNamed(lines) == {i \in 1..Len(lines) : Len(SplitOnce(lines[i])) = 2}

\* C40: every header line `Field: v` sets header[Field], the line being cut
\* once at its first `: `, so a value that itself holds `: ` is kept in full
\* and no such line is dropped; of several lines for one field the last
\* one gives the value.
C40_SplitOnceLastWins ==
    (op = "parse_header" /\ outcome # "running")
    => /\ outcome = "returned"
       /\ \A i \in FieldsNamed(arg.lines) :
            LET field == SplitOnce(arg.lines[i])[1]
                same == {j \in FieldsNamed(arg.lines) :
                           SplitOnce(arg.lines[j])[1] = field}
                last == CHOOSE j \in same : \A k \in same : k <= j
            IN  HeaderGet(header.fields, field)
                  = [present |-> TRUE,
                     value |-> SplitOnce(arg.lines[last])[2]]

====
